---- MODULE Spec2Model ----
(***************************************************************************)
(* Registration engine of Gina (src/gina): the session store, the user-id *)
(* generator, the input validators and the two tool entry points          *)
(* gina_get_user_profile and gina_handle_registration_step.                *)
(*                                                                         *)
(* Text is modelled as a sequence of one-character strings, so that the   *)
(* validators strip, lower-case, filter and search it the way the Python   *)
(* code does.  Python's None is the one-element sequence None.             *)
(***************************************************************************)
EXTENDS Integers, Sequences, FiniteSets, TLC

\* ------------------------------------------------------------------------
\* Bounds of the model
\* ------------------------------------------------------------------------
\* number of distinct user ids the generator can draw (10^5 in the code)
NumIds == 2
\* number of draws generate_user_id makes before falling back (1000 in the code)
MaxAttempts == 2
\* the clock stops advancing here
MaxTime == 1802
\* and here where two conversations are followed
MaxStoreTime == 3602
\* longest copy list handed to the availability calculation
MaxCopies == 3
\* longest text handed to normalize_text
MaxText == 3
\* longest tag list handed to calculate_loan_term
MaxTags == 3
\* most digits in a text handed to validate_phone
MaxDigits == 17

\* ------------------------------------------------------------------------
\* Program constants
\* ------------------------------------------------------------------------
REGISTRATION_TIMEOUT_SECONDS == 1800

\* ------------------------------------------------------------------------
\* Text
\* ------------------------------------------------------------------------
None == <<"None">>

Truthy(x) == x # None /\ x # <<>>

LowerLetters == <<"a","b","c","d","e","f","g","h","i","j","k","l","m",
                  "n","o","p","q","r","s","t","u","v","w","x","y","z">>
UpperLetters == <<"A","B","C","D","E","F","G","H","I","J","K","L","M",
                  "N","O","P","Q","R","S","T","U","V","W","X","Y","Z">>

Range(s) == {s[i] : i \in DOMAIN s}

AsciiLetters == Range(LowerLetters) \cup Range(UpperLetters)
\* the accented letters the name pattern lists, as named tokens
AccentedLetters == {"a_acute", "e_acute", "i_acute", "o_acute", "u_acute",
                    "A_acute", "E_acute", "I_acute", "O_acute", "U_acute",
                    "n_tilde", "N_tilde", "u_diaeresis", "U_diaeresis"}
Digits == {"0","1","2","3","4","5","6","7","8","9"}
Whitespace == {" ", "\t", "\n"}

isalpha(ch) == ch \in AsciiLetters \cup AccentedLetters \cup {"c_cedilla"}
isdigit(ch) == ch \in Digits
isspace(ch) == ch \in Whitespace
\* regex \w : letters, digits and the underscore
isword(ch) == isalpha(ch) \/ isdigit(ch) \/ ch = "_"

\* the cased letters: the ASCII ones and the accented ones, index by index
UpperCased == UpperLetters \o <<"A_acute", "E_acute", "I_acute", "O_acute",
                                "U_acute", "N_tilde", "U_diaeresis">>
LowerCased == LowerLetters \o <<"a_acute", "e_acute", "i_acute", "o_acute",
                                "u_acute", "n_tilde", "u_diaeresis">>

lower_char(ch) ==
    IF \E i \in DOMAIN UpperCased : UpperCased[i] = ch
    THEN LowerCased[CHOOSE i \in DOMAIN UpperCased : UpperCased[i] = ch]
    ELSE ch

lower(s) == [i \in DOMAIN s |-> lower_char(s[i])]

upper(s) ==
    [i \in DOMAIN s |->
        IF \E k \in DOMAIN LowerCased : LowerCased[k] = s[i]
        THEN UpperCased[CHOOSE k \in DOMAIN LowerCased : LowerCased[k] = s[i]]
        ELSE s[i]]

RECURSIVE lstrip(_)
lstrip(s) == IF s # <<>> /\ isspace(Head(s)) THEN lstrip(Tail(s)) ELSE s

RECURSIVE rstrip(_)
rstrip(s) == IF s # <<>> /\ isspace(s[Len(s)])
             THEN rstrip(SubSeq(s, 1, Len(s) - 1)) ELSE s

strip(s) == rstrip(lstrip(s))

Filter(s, Keep(_)) == SelectSeq(s, Keep)

\* Python's  w in s  for strings
Contains(s, w) ==
    \E i \in 0..(Len(s) - Len(w)) : SubSeq(s, i + 1, i + Len(w)) = w

\* ------------------------------------------------------------------------
\* Validators (gina_utils.py)
\* ------------------------------------------------------------------------
NameAllowed(ch) ==
    ch \in AsciiLetters \cup AccentedLetters \cup Whitespace \cup {"-", "'"}

validate_name(text) ==
    IF ~Truthy(text) THEN None
    ELSE LET cleaned == strip(text)
             letter_count == Len(Filter(cleaned, isalpha))
         IN  IF Len(cleaned) < 2 THEN None
             ELSE IF \A i \in DOMAIN cleaned : isdigit(cleaned[i]) THEN None
             ELSE IF 2 * letter_count < Len(cleaned) THEN None
             ELSE IF \E i \in DOMAIN cleaned : ~NameAllowed(cleaned[i]) THEN None
             ELSE cleaned

\* variant: fifteen digits are one too many
validate_phone_Exclusive(text) ==
    IF ~Truthy(text) THEN None
    ELSE LET digits == Filter(text, isdigit)
         IN  IF 6 <= Len(digits) /\ Len(digits) < 15 THEN digits ELSE None

validate_phone(text) ==
    IF ~Truthy(text) THEN None
    ELSE LET digits == Filter(text, isdigit)
         IN  IF 6 <= Len(digits) /\ Len(digits) <= 15 THEN digits ELSE None

AFFIRMATIVE_WORDS ==
    { <<"y","e","s">>, <<"s","i">>, <<"s">>, <<"y">>, <<"o","k">>,
      <<"v","a","l","e">>, <<"c","o","r","r","e","c","t">>,
      <<"c","o","n","f","i","r","m">>, <<"c","l","e","a","r">>, <<"g","o">>,
      <<"g","o","o","d">>, <<"a","f","f","i","r","m","a","t","i","v","e">>,
      <<"y","e","p">>, <<"y","e","a","h">>, <<"s","i","m","o","n">>,
      <<"e","x","a","c","t">>, <<"p","e","r","f","e","c","t">>,
      <<"f","i","n","e">> }

is_affirmative(text) ==
    IF ~Truthy(text) THEN FALSE
    ELSE LET cleaned == Filter(lower(strip(text)),
                                 LAMBDA ch : isword(ch) \/ isspace(ch))
             \* cleaned.replace('i', 'i') changes nothing
             normalized == cleaned
         IN  normalized \in AFFIRMATIVE_WORDS \/ cleaned \in AFFIRMATIVE_WORDS

skip_words ==
    { <<"s","k","i","p">>, <<"n","o">>, <<"n","o","n","e">>,
      <<"n","o","t","h","i","n","g">>,
      <<"p","r","e","f","e","r"," ","n","o","t">> }

\* variant: a skip phrase counts only when it is the whole message
is_skip_request_Exact(text) ==
    IF ~Truthy(text) THEN FALSE
    ELSE lower(strip(text)) \in skip_words

is_skip_request(text) ==
    IF ~Truthy(text) THEN FALSE
    ELSE LET normalized == lower(strip(text))
         IN  normalized \in skip_words
             \/ \E word \in skip_words : Contains(normalized, word)

\* ------------------------------------------------------------------------
\* Dictionaries
\* ------------------------------------------------------------------------
EmptyDict == [k \in {} |-> None]

Put(d, k, v) == [x \in (DOMAIN d) \cup {k} |-> IF x = k THEN v ELSE d[x]]

Get(d, k, default) == IF k \in DOMAIN d THEN d[k] ELSE default

Pop(d, k) == [x \in (DOMAIN d) \ {k} |-> d[x]]

\* ------------------------------------------------------------------------
\* Session store (gina_utils.py, STATE MANAGEMENT)
\* ------------------------------------------------------------------------
create_registration_state(regs, conversation_id, now_) ==
    Put(regs, conversation_id,
        [stage |-> "started", collected |-> EmptyDict,
         created_at |-> now_, last_activity |-> now_])

get_registration_state(regs, conversation_id) ==
    Get(regs, conversation_id, None)

update_registration_activity(regs, conversation_id, now_) ==
    IF conversation_id \in DOMAIN regs
    THEN [regs EXCEPT ![conversation_id].last_activity = now_]
    ELSE regs

\* variant: a session idle for exactly the timeout counts as stale
IsStale_Inclusive(state, now_) ==
    now_ - state.last_activity >= REGISTRATION_TIMEOUT_SECONDS

IsStale(state, now_) ==
    now_ - state.last_activity > REGISTRATION_TIMEOUT_SECONDS

stale_ids(regs, now_) == {c \in DOMAIN regs : IsStale(regs[c], now_)}

\* the store after the sweep, and the number it returns
cleanup_stale_registrations(regs, now_) ==
    [regs  |-> [c \in (DOMAIN regs) \ stale_ids(regs, now_) |-> regs[c]],
     count |-> Cardinality(stale_ids(regs, now_))]

\* variant: completing one registration empties the whole store
delete_registration_Clear(regs, conversation_id) == EmptyDict

delete_registration(regs, conversation_id) == Pop(regs, conversation_id)

\* ------------------------------------------------------------------------
\* Profiles (gina_utils.py, DATA FORMATTING)
\* ------------------------------------------------------------------------
create_empty_profile_preferences ==
    [favorite_genres |-> <<>>, favorite_authors |-> <<>>,
     reading_themes |-> <<>>, recent_interests |-> <<>>,
     reader_profile |-> [experience_level |-> None, reading_speed |-> None,
                         comfort_topics |-> <<>>],
     borrowing_habits |-> [average_loan_duration |-> None,
                           frequency |-> None, typical_format |-> None],
     accessibility |-> [needs_large_print |-> FALSE,
                        prefers_audiobooks |-> FALSE,
                        language_preference |-> <<"e","n">>]]

\* variant: the phone is left out of the profile
create_profile_without_phone(collected) ==
    [name |-> Get(collected, "name", None),
     phone |-> None,
     preferences |-> create_empty_profile_preferences]

create_profile_from_collected_data(collected) ==
    [name |-> Get(collected, "name", None),
     phone |-> Get(collected, "phone", None),
     preferences |-> create_empty_profile_preferences]

\* ------------------------------------------------------------------------
\* Identifier generation (gina_utils.py, ID GENERATION)
\* ------------------------------------------------------------------------
UserIds == 0..(NumIds - 1)

\* the values random.choices yields in the successive rounds of the loop
DrawSeqs == [1..MaxAttempts -> UserIds]

\* str(int(time.time()))[-5:] : the low-order digits of the clock
TimeFallback(now_) == now_ % NumIds

\* variant: the first draw is returned without looking at the used-id set
generate_user_id_Unchecked(used, draws, now_) ==
    [id |-> draws[1], used |-> used \cup {draws[1]}]
generate_user_id(used, draws, now_) ==
    LET fresh == {i \in DOMAIN draws : draws[i] \notin used}
    IN  IF fresh # {}
        THEN LET first == CHOOSE i \in fresh : \A j \in fresh : i <= j
             IN  [id |-> draws[first], used |-> used \cup {draws[first]}]
        ELSE [id |-> TimeFallback(now_), used |-> used]

\* ------------------------------------------------------------------------
\* Persistence (gina_tools.py); db_ok is FALSE when sqlite raises
\* ------------------------------------------------------------------------
save_user_profile(table, user_id, profile, db_ok) ==
    IF ~Truthy(profile.name)
    THEN [saved |-> FALSE, reason |-> "missing_name", table |-> table]
    ELSE IF ~db_ok
    THEN [saved |-> FALSE, reason |-> "exception", table |-> table]
    ELSE [saved |-> TRUE, reason |-> "",
          table |-> Put(table, user_id,
                        [name |-> profile.name, phone |-> profile.phone,
                         preferences |-> profile.preferences])]

get_user_profile(table, user_id, db_ok) ==
    IF ~db_ok \/ user_id \notin DOMAIN table
    THEN [exists |-> FALSE]
    ELSE [exists |-> TRUE, profile |-> table[user_id]]

\* ------------------------------------------------------------------------
\* Responses (iris_gina_protocol.py)
\* ------------------------------------------------------------------------
Error(reason) == [type |-> "error", reason |-> reason]

Skipped == <<"(skipped)">>
NoName == <<"(no name)">>

\* variant: the summary shows the stored phone value as it is
Summary_RawPhone(collected) ==
    [name |-> Get(collected, "name", NoName),
     phone |-> Get(collected, "phone", None)]

Summary(collected) ==
    [name |-> Get(collected, "name", NoName),
     phone |-> IF Truthy(Get(collected, "phone", None))
               THEN collected["phone"] ELSE Skipped]

\* ------------------------------------------------------------------------
\* The state machine of gina_handle_registration_step, one operator per
\* stage.  Each yields the session after the turn (deleted = TRUE when it
\* was removed from the store), the used-id set, the users table, the
\* response, the user ids generated and the saves attempted.  An outcome
\* also names the stage the handler read from the session.
\* ------------------------------------------------------------------------
Turn(state, deleted, used, table, response, generated, saves) ==
    [state |-> state, deleted |-> deleted, used |-> used, table |-> table,
     response |-> response, generated |-> generated, saves |-> saves]

\* variant: a rejected name sends the session back to started
StageAwaitingName_Restart(state, conv_id, user_msg, used, table) ==
    LET name == IF Truthy(user_msg) THEN validate_name(user_msg) ELSE None
    IN  IF Truthy(name)
        THEN Turn([state EXCEPT !.collected = Put(@, "name", name),
                                !.stage = "awaiting_phone"],
                  FALSE, used, table,
                  [type |-> "ask_user_data", conversation_id |-> conv_id,
                   field |-> "phone"],
                  <<>>, <<>>)
        ELSE Turn([state EXCEPT !.stage = "started"], FALSE, used, table,
                  [type |-> "ask_user_data", conversation_id |-> conv_id,
                   field |-> "name"],
                  <<>>, <<>>)

\* variant: an accepted name is stored but the stage is not advanced
StageAwaitingName_KeepStage(state, conv_id, user_msg, used, table) ==
    LET name == IF Truthy(user_msg) THEN validate_name(user_msg) ELSE None
    IN  IF Truthy(name)
        THEN Turn([state EXCEPT !.collected = Put(@, "name", name)],
                  FALSE, used, table,
                  [type |-> "ask_user_data", conversation_id |-> conv_id,
                   field |-> "phone"],
                  <<>>, <<>>)
        ELSE Turn(state, FALSE, used, table,
                  [type |-> "ask_user_data", conversation_id |-> conv_id,
                   field |-> "name"],
                  <<>>, <<>>)

\* variant: whatever the caller sends is taken as the name
StageAwaitingName_AnyName(state, conv_id, user_msg, used, table) ==
    IF Truthy(user_msg)
    THEN Turn([state EXCEPT !.collected = Put(@, "name", user_msg),
                            !.stage = "awaiting_phone"],
              FALSE, used, table,
              [type |-> "ask_user_data", conversation_id |-> conv_id,
               field |-> "phone"],
              <<>>, <<>>)
    ELSE Turn(state, FALSE, used, table,
              [type |-> "ask_user_data", conversation_id |-> conv_id,
               field |-> "name"],
              <<>>, <<>>)
\* STATE: AWAITING_NAME
StageAwaitingName(state, conv_id, user_msg, used, table) ==
    LET name == IF Truthy(user_msg) THEN validate_name(user_msg) ELSE None
    IN  IF Truthy(name)
        THEN Turn([state EXCEPT !.collected = Put(@, "name", name),
                                !.stage = "awaiting_phone"],
                  FALSE, used, table,
                  [type |-> "ask_user_data", conversation_id |-> conv_id,
                   field |-> "phone"],
                  <<>>, <<>>)
        ELSE Turn(state, FALSE, used, table,
                  [type |-> "ask_user_data", conversation_id |-> conv_id,
                   field |-> "name"],
                  <<>>, <<>>)

\* variant: the phone step already persists the data collected so far
StageAwaitingPhone_Save(state, conv_id, user_msg, used, table) ==
    LET phone == IF is_skip_request(IF Truthy(user_msg) THEN user_msg ELSE <<>>)
                 THEN None
                 ELSE IF Truthy(user_msg) THEN validate_phone(user_msg)
                 ELSE None
        collected == Put(state.collected, "phone", phone)
        profile == create_profile_from_collected_data(collected)
        save_result == save_user_profile(table, 0, profile, TRUE)
    IN  Turn([state EXCEPT !.collected = collected, !.stage = "confirm"],
             FALSE, used, save_result.table,
             [type |-> "confirm_data", conversation_id |-> conv_id,
              summary |-> Summary(collected)],
             <<>>,
             << [user_id |-> 0, profile |-> profile,
                 saved |-> save_result.saved] >>)
\* STATE: AWAITING_PHONE
StageAwaitingPhone(state, conv_id, user_msg, used, table) ==
    LET phone == IF is_skip_request(IF Truthy(user_msg) THEN user_msg ELSE <<>>)
                 THEN None
                 ELSE IF Truthy(user_msg) THEN validate_phone(user_msg)
                 ELSE None
        collected == Put(state.collected, "phone", phone)
    IN  Turn([state EXCEPT !.collected = collected, !.stage = "confirm"],
             FALSE, used, table,
             [type |-> "confirm_data", conversation_id |-> conv_id,
              summary |-> Summary(collected)],
             <<>>, <<>>)

\* variant: the session is deleted whether or not the save succeeded
StageConfirm_DropOnFailure(state, conv_id, user_msg, used, table, now_, draws, db_ok) ==
    IF is_affirmative(IF Truthy(user_msg) THEN user_msg ELSE <<>>)
    THEN LET gen == generate_user_id(used, draws, now_)
             profile == create_profile_from_collected_data(state.collected)
             save_result == save_user_profile(table, gen.id, profile, db_ok)
             saves == << [user_id |-> gen.id, profile |-> profile,
                          saved |-> save_result.saved] >>
         IN  IF save_result.saved
             THEN Turn(state, TRUE, gen.used, save_result.table,
                       [type |-> "registration_complete",
                        conversation_id |-> conv_id,
                        user_id |-> gen.id, profile |-> profile],
                       <<gen.id>>, saves)
             ELSE Turn(state, TRUE, gen.used, save_result.table,
                       Error("save_failed"), <<gen.id>>, saves)
    ELSE Turn([state EXCEPT !.stage = "awaiting_name",
                            !.collected = EmptyDict],
              FALSE, used, table,
              [type |-> "ask_user_data", conversation_id |-> conv_id,
               field |-> "name"],
              <<>>, <<>>)

\* variant: a rejection keeps what was collected
StageConfirm_KeepCollected(state, conv_id, user_msg, used, table, now_, draws, db_ok) ==
    IF is_affirmative(IF Truthy(user_msg) THEN user_msg ELSE <<>>)
    THEN LET gen == generate_user_id(used, draws, now_)
             profile == create_profile_from_collected_data(state.collected)
             save_result == save_user_profile(table, gen.id, profile, db_ok)
             saves == << [user_id |-> gen.id, profile |-> profile,
                          saved |-> save_result.saved] >>
         IN  IF save_result.saved
             THEN Turn(state, TRUE, gen.used, save_result.table,
                       [type |-> "registration_complete",
                        conversation_id |-> conv_id,
                        user_id |-> gen.id, profile |-> profile],
                       <<gen.id>>, saves)
             ELSE Turn(state, FALSE, gen.used, save_result.table,
                       Error("save_failed"), <<gen.id>>, saves)
    ELSE Turn([state EXCEPT !.stage = "awaiting_name"],
              FALSE, used, table,
              [type |-> "ask_user_data", conversation_id |-> conv_id,
               field |-> "name"],
              <<>>, <<>>)

\* variant: a completed registration is kept in the store at stage done
StageConfirm_MarkDone(state, conv_id, user_msg, used, table, now_, draws, db_ok) ==
    IF is_affirmative(IF Truthy(user_msg) THEN user_msg ELSE <<>>)
    THEN LET gen == generate_user_id(used, draws, now_)
             profile == create_profile_from_collected_data(state.collected)
             save_result == save_user_profile(table, gen.id, profile, db_ok)
             saves == << [user_id |-> gen.id, profile |-> profile,
                          saved |-> save_result.saved] >>
         IN  IF save_result.saved
             THEN Turn([state EXCEPT !.stage = "done"], FALSE, gen.used,
                       save_result.table,
                       [type |-> "registration_complete",
                        conversation_id |-> conv_id,
                        user_id |-> gen.id, profile |-> profile],
                       <<gen.id>>, saves)
             ELSE Turn(state, FALSE, gen.used, save_result.table,
                       Error("save_failed"), <<gen.id>>, saves)
    ELSE Turn([state EXCEPT !.stage = "awaiting_name",
                            !.collected = EmptyDict],
              FALSE, used, table,
              [type |-> "ask_user_data", conversation_id |-> conv_id,
               field |-> "name"],
              <<>>, <<>>)
\* STATE: CONFIRM
StageConfirm(state, conv_id, user_msg, used, table, now_, draws, db_ok) ==
    IF is_affirmative(IF Truthy(user_msg) THEN user_msg ELSE <<>>)
    THEN LET gen == generate_user_id(used, draws, now_)
             profile == create_profile_from_collected_data(state.collected)
             save_result == save_user_profile(table, gen.id, profile, db_ok)
             saves == << [user_id |-> gen.id, profile |-> profile,
                          saved |-> save_result.saved] >>
         IN  IF save_result.saved
             THEN Turn(state, TRUE, gen.used, save_result.table,
                       [type |-> "registration_complete",
                        conversation_id |-> conv_id,
                        user_id |-> gen.id, profile |-> profile],
                       <<gen.id>>, saves)
             ELSE Turn(state, FALSE, gen.used, save_result.table,
                       Error("save_failed"), <<gen.id>>, saves)
    ELSE Turn([state EXCEPT !.stage = "awaiting_name",
                            !.collected = EmptyDict],
              FALSE, used, table,
              [type |-> "ask_user_data", conversation_id |-> conv_id,
               field |-> "name"],
              <<>>, <<>>)

\* variant: a session with an unknown stage is put back to started
StateMachine_Repair(state, conv_id, user_msg, used, table, now_, draws, db_ok) ==
    IF state.stage = "started"
    THEN StageAwaitingName([state EXCEPT !.stage = "awaiting_name"],
                           conv_id, user_msg, used, table)
    ELSE IF state.stage = "awaiting_name"
    THEN StageAwaitingName(state, conv_id, user_msg, used, table)
    ELSE IF state.stage = "awaiting_phone"
    THEN StageAwaitingPhone(state, conv_id, user_msg, used, table)
    ELSE IF state.stage = "confirm"
    THEN StageConfirm(state, conv_id, user_msg, used, table, now_, draws, db_ok)
    ELSE IF state.stage = "done"
    THEN Turn(state, FALSE, used, table, [type |-> "info"], <<>>, <<>>)
    ELSE Turn([state EXCEPT !.stage = "started"], FALSE, used, table,
              Error("unknown_stage"), <<>>, <<>>)

\* variant: the first message after the start only opens the name step and
\* is not read as the name
StateMachine_AskFirst(state, conv_id, user_msg, used, table, now_, draws, db_ok) ==
    IF state.stage = "started"
    THEN Turn([state EXCEPT !.stage = "awaiting_name"], FALSE, used, table,
              [type |-> "ask_user_data", conversation_id |-> conv_id,
               field |-> "name"],
              <<>>, <<>>)
    ELSE IF state.stage = "awaiting_name"
    THEN StageAwaitingName(state, conv_id, user_msg, used, table)
    ELSE IF state.stage = "awaiting_phone"
    THEN StageAwaitingPhone(state, conv_id, user_msg, used, table)
    ELSE IF state.stage = "confirm"
    THEN StageConfirm(state, conv_id, user_msg, used, table, now_, draws, db_ok)
    ELSE IF state.stage = "done"
    THEN Turn(state, FALSE, used, table, [type |-> "info"], <<>>, <<>>)
    ELSE Turn(state, FALSE, used, table, Error("unknown_stage"), <<>>, <<>>)
\* the chain of  if stage == ...  tests, entered with the touched session
StateMachine(state, conv_id, user_msg, used, table, now_, draws, db_ok) ==
    IF state.stage = "started"
    THEN StageAwaitingName([state EXCEPT !.stage = "awaiting_name"],
                           conv_id, user_msg, used, table)
    ELSE IF state.stage = "awaiting_name"
    THEN StageAwaitingName(state, conv_id, user_msg, used, table)
    ELSE IF state.stage = "awaiting_phone"
    THEN StageAwaitingPhone(state, conv_id, user_msg, used, table)
    ELSE IF state.stage = "confirm"
    THEN StageConfirm(state, conv_id, user_msg, used, table, now_, draws, db_ok)
    ELSE IF state.stage = "done"
    THEN Turn(state, FALSE, used, table, [type |-> "info"], <<>>, <<>>)
    ELSE Turn(state, FALSE, used, table, Error("unknown_stage"), <<>>, <<>>)

\* ------------------------------------------------------------------------
\* gina_handle_registration_step as a function of the process state and
\* the request.  args.kind is "invalid_json" (a string that does not
\* parse), "not_dict" (JSON that is not an object) or "dict".
\* ------------------------------------------------------------------------
Outcome(regs, used, table, response, generated, saves) ==
    [regs |-> regs, used |-> used, table |-> table, response |-> response,
     generated |-> generated, saves |-> saves, stage |-> ""]

\* variant: a request for an unknown conversation opens a session for it
continue_registration_AutoCreate(regs, used, table, now_, conv_id, user_msg, draws, db_ok) ==
    IF conv_id = ""
    THEN Outcome(regs, used, table, Error("missing_conversation_id"), <<>>, <<>>)
    ELSE IF conv_id \notin DOMAIN regs
    THEN Outcome(create_registration_state(regs, conv_id, now_), used, table,
                 Error("conversation_not_found"), <<>>, <<>>)
    ELSE LET touched == update_registration_activity(regs, conv_id, now_)
             turn == StateMachine(get_registration_state(touched, conv_id),
                                  conv_id, user_msg, used, table, now_,
                                  draws, db_ok)
         IN  [Outcome(IF turn.deleted
                      THEN delete_registration(touched, conv_id)
                      ELSE [touched EXCEPT ![conv_id] = turn.state],
                      turn.used, turn.table, turn.response,
                      turn.generated, turn.saves)
              EXCEPT !.stage = touched[conv_id].stage]

continue_registration(regs, used, table, now_, conv_id, user_msg, draws, db_ok) ==
    IF conv_id = ""
    THEN Outcome(regs, used, table, Error("missing_conversation_id"), <<>>, <<>>)
    ELSE IF conv_id \notin DOMAIN regs
    THEN Outcome(regs, used, table, Error("conversation_not_found"), <<>>, <<>>)
    ELSE LET touched == update_registration_activity(regs, conv_id, now_)
             turn == StateMachine(get_registration_state(touched, conv_id),
                                  conv_id, user_msg, used, table, now_,
                                  draws, db_ok)
         IN  [Outcome(IF turn.deleted
                      THEN delete_registration(touched, conv_id)
                      ELSE [touched EXCEPT ![conv_id] = turn.state],
                      turn.used, turn.table, turn.response,
                      turn.generated, turn.saves)
              EXCEPT !.stage = touched[conv_id].stage]

start_registration(regs, used, table, now_, conv_id) ==
    Outcome(create_registration_state(regs, conv_id, now_), used, table,
            [type |-> "registration_started", conversation_id |-> conv_id],
            <<>>, <<>>)

gina_handle_registration_step(regs, used, table, now_, args, new_id, draws, db_ok) ==
    IF args.kind = "invalid_json"
    THEN Outcome(regs, used, table, Error("invalid_json"), <<>>, <<>>)
    ELSE IF args.kind = "not_dict" \/ args.action = ""
    THEN Outcome(regs, used, table, Error("missing_action"), <<>>, <<>>)
    ELSE IF args.action = "start_registration"
    THEN start_registration(regs, used, table, now_, new_id)
    ELSE IF args.action = "continue_registration"
    THEN continue_registration(regs, used, table, now_, args.conversation_id,
                               args.user_message, draws, db_ok)
    ELSE Outcome(regs, used, table, Error("unknown_action"), <<>>, <<>>)

\* ------------------------------------------------------------------------
\* gina_get_user_profile: the sweep, then the lookup
\* ------------------------------------------------------------------------
NoUserId == -1

\* what follows the sweep: the argument checks and the lookup.  lookup tells
\* whether the gateway was asked, and whether the query raised
profile_lookup(table, args, db_ok) ==
    IF args.kind = "invalid_json"
    THEN [response |-> Error("invalid_json"), lookup |-> "none"]
    ELSE IF args.kind = "not_dict" \/ args.user_id = NoUserId
    THEN [response |-> Error("missing_user_id"), lookup |-> "none"]
    ELSE LET result == get_user_profile(table, args.user_id, db_ok)
         IN  [response |-> IF result.exists
                           THEN [type |-> "profile_found",
                                 profile |-> result.profile]
                           ELSE [type |-> "profile_not_found"],
              lookup |-> IF db_ok THEN "answered" ELSE "failed"]

\* variant: the arguments are checked first, the sweep runs only for a
\* request that gets as far as the lookup
gina_get_user_profile_ParseFirst(regs, table, now_, args, db_ok) ==
    LET looked == profile_lookup(table, args, db_ok)
        swept == IF looked.lookup = "none"
                 THEN [regs |-> regs, count |-> 0]
                 ELSE cleanup_stale_registrations(regs, now_)
    IN  [regs |-> swept.regs, swept |-> swept.count,
         response |-> looked.response, lookup |-> looked.lookup]

gina_get_user_profile(regs, table, now_, args, db_ok) ==
    LET swept == cleanup_stale_registrations(regs, now_)
        looked == profile_lookup(table, args, db_ok)
    IN  [regs |-> swept.regs, swept |-> swept.count,
         response |-> looked.response, lookup |-> looked.lookup]

\* ------------------------------------------------------------------------
\* Availability of a book (alec_utils.py, AVAILABILITY CALCULATION).  A copy
\* is a dict; a key it lacks is read with its default.
\* ------------------------------------------------------------------------
StatusOf(copy) == Get(copy, "status", "None")

\* variant: every copy that is not out on loan counts as available
count_available_copies_NotBorrowed(copies_) ==
    Len(SelectSeq(copies_, LAMBDA copy : StatusOf(copy) # "Borrowed"))

count_available_copies(copies_) ==
    Len(SelectSeq(copies_, LAMBDA copy : StatusOf(copy) = "Available"))

RECURSIVE get_copy_conditions(_)
get_copy_conditions(copies_) ==
    IF copies_ = <<>> THEN <<>>
    ELSE IF StatusOf(Head(copies_)) = "Available"
    THEN <<Get(Head(copies_), "condition", "Unknown")>>
             \o get_copy_conditions(Tail(copies_))
    ELSE get_copy_conditions(Tail(copies_))

\* variant: one borrowed copy is enough for the reason all_borrowed
check_availability_status_AnyBorrowed(copies_) ==
    LET total == Len(copies_)
        available == count_available_copies(copies_)
        borrowed == Len(SelectSeq(copies_, LAMBDA copy : StatusOf(copy) = "Borrowed"))
        under_repair == Len(SelectSeq(copies_, LAMBDA copy : StatusOf(copy) = "Repair"))
    IN  IF available > 0
        THEN [available |-> TRUE, quantity |-> available,
              conditions |-> get_copy_conditions(copies_)]
        ELSE [available |-> FALSE, quantity |-> 0,
              reason |-> IF borrowed > 0 THEN "all_borrowed"
                         ELSE IF under_repair > 0 THEN "under_repair"
                         ELSE "not_available",
              borrowed |-> borrowed, under_repair |-> under_repair]

\* variant: a book without copies is not taken for one with all copies lent
check_availability_status_NonEmpty(copies_) ==
    LET total == Len(copies_)
        available == count_available_copies(copies_)
        borrowed == Len(SelectSeq(copies_, LAMBDA copy : StatusOf(copy) = "Borrowed"))
        under_repair == Len(SelectSeq(copies_, LAMBDA copy : StatusOf(copy) = "Repair"))
    IN  IF available > 0
        THEN [available |-> TRUE, quantity |-> available,
              conditions |-> get_copy_conditions(copies_)]
        ELSE [available |-> FALSE, quantity |-> 0,
              reason |-> IF total > 0 /\ borrowed = total THEN "all_borrowed"
                         ELSE IF under_repair > 0 THEN "under_repair"
                         ELSE "not_available",
              borrowed |-> borrowed, under_repair |-> under_repair]
check_availability_status(copies_) ==
    LET total == Len(copies_)
        available == count_available_copies(copies_)
        borrowed == Len(SelectSeq(copies_, LAMBDA copy : StatusOf(copy) = "Borrowed"))
        under_repair == Len(SelectSeq(copies_, LAMBDA copy : StatusOf(copy) = "Repair"))
    IN  IF available > 0
        THEN [available |-> TRUE, quantity |-> available,
              conditions |-> get_copy_conditions(copies_)]
        ELSE [available |-> FALSE, quantity |-> 0,
              reason |-> IF borrowed = total THEN "all_borrowed"
                         ELSE IF under_repair > 0 THEN "under_repair"
                         ELSE "not_available",
              borrowed |-> borrowed, under_repair |-> under_repair]

\* the copies a list is drawn from: the four statuses of the inventory, a
\* copy without a condition and a copy without a status
Copies ==
    { [status |-> st, condition |-> "Good"] :
        st \in {"Available", "Borrowed", "Repair", "Withdrawn"} }
        \cup { [status |-> "Available"], [condition |-> "Poor"] }

CopyLists == UNION { [1..n -> Copies] : n \in 0..MaxCopies }

\* ------------------------------------------------------------------------
\* Text normalisation (alec_utils.py)
\* ------------------------------------------------------------------------
\* the replacements dict
replace_char(ch) ==
    CASE ch = "a_acute" -> "a"
      [] ch = "e_acute" -> "e"
      [] ch = "i_acute" -> "i"
      [] ch = "o_acute" -> "o"
      [] ch = "u_acute" -> "u"
      [] ch = "u_diaeresis" -> "u"
      [] ch = "n_tilde" -> "n"
      [] OTHER -> ch

\* variant: the accents are removed before the text is lower-cased
normalize_text_ReplaceFirst(text) ==
    IF ~Truthy(text) THEN <<>>
    ELSE strip(lower([i \in DOMAIN text |-> replace_char(text[i])]))

normalize_text(text) ==
    IF ~Truthy(text) THEN <<>>
    ELSE LET normalized == strip(lower(text))
         IN  [i \in DOMAIN normalized |-> replace_char(normalized[i])]

\* ------------------------------------------------------------------------
\* Loan rules (iris_alec_protocol.py) and the loan term (alec_utils.py)
\* ------------------------------------------------------------------------
\* the keys of LOAN_RULES
RuleKey ==
    [reference |-> <<"R","E","F","E","R","E","N","C","E">>,
     new |-> <<"N","E","W">>,
     novel_extended |-> <<"N","O","V","E","L","_","E","X","T","E","N","D","E","D">>,
     standard |-> <<"S","T","A","N","D","A","R","D">>]

LOAN_RULES ==
    [key \in {RuleKey.reference, RuleKey.new, RuleKey.novel_extended,
              RuleKey.standard} |->
        CASE key = RuleKey.reference ->
               [days |-> 7, priority |-> 1,
                description |-> "Frequently consulted reference material"]
          [] key = RuleKey.new ->
               [days |-> 14, priority |-> 2,
                description |-> "Recent acquisitions with high demand"]
          [] key = RuleKey.novel_extended ->
               [days |-> 28, priority |-> 3,
                description |-> "Extended works requiring more reading time"]
          [] key = RuleKey.standard ->
               [days |-> 21, priority |-> 5,
                description |-> "Standard loan for most materials"]]

\* variant: the tag is not upper-cased
tag_norm_NoUpper(tag) ==
    LET normalized == normalize_text(tag)
    IN  [i \in DOMAIN normalized |->
            IF normalized[i] = " " THEN "_" ELSE normalized[i]]

\* normalize_text(tag).replace(" ", "_").upper()
tag_norm(tag) ==
    LET normalized == normalize_text(tag)
    IN  upper([i \in DOMAIN normalized |->
                  IF normalized[i] = " " THEN "_" ELSE normalized[i]])

\* variant: a rule of equal priority never replaces the winner
replaces_winner_NoTie(current_rule, winning_rule) ==
    current_rule.priority < winning_rule.priority

\* variant: every matching rule replaces the winner
replaces_winner_Always(current_rule, winning_rule) ==
    TRUE

\* the two tests of the loop body
replaces_winner(current_rule, winning_rule) ==
    IF current_rule.priority < winning_rule.priority THEN TRUE
    ELSE IF current_rule.priority = winning_rule.priority
    THEN current_rule.days > winning_rule.days
    ELSE FALSE

\* the loop over the tags; rules is the table LOAN_RULES names
RECURSIVE loan_fold(_, _, _)
loan_fold(rules, tags, winner) ==
    IF tags = <<>> THEN winner
    ELSE LET norm == tag_norm(Head(tags))
         IN  loan_fold(rules, Tail(tags),
                 IF norm \in DOMAIN rules
                    /\ replaces_winner(rules[norm], winner.winning_rule)
                 THEN [winning_rule |-> rules[norm], applied_tag |-> norm]
                 ELSE winner)

calculate_loan_term(rules, tags) ==
    LET winner == loan_fold(rules, tags,
                      [winning_rule |-> rules[RuleKey.standard],
                       applied_tag |-> RuleKey.standard])
    IN  [days |-> winner.winning_rule.days,
         applied_rule |-> winner.applied_tag,
         priority |-> winner.winning_rule.priority,
         description |-> winner.winning_rule.description]

\* ------------------------------------------------------------------------
\* The catalogue (alec_inventory.py), in insertion order
\* ------------------------------------------------------------------------
GEPEBIA_INVENTORY ==
    <<
      \* 1
      [key |-> <<"a","d","a","n","_","b","u","e","n","o","s","a","y","r","e",
                "s">>,
       data |-> [title |-> <<"A","d","a_acute","n"," ","B","u","e","n","o","s","a",
                      "y","r","e","s">>,
                 author |-> <<"L","e","o","p","o","l","d","o"," ","M","a","r","e",
                      "c","h","a","l">>,
                 tags |->
                   <<<<"N","O","V","E","L","_","E","X","T","E","N","D","E",
                        "D">>,
                      <<"E","x","p","e","r","i","m","e","n","t","a","l">>,
                      <<"A","r","g","e","n","t","i","n","e"," ","C","l","a",
                        "s","s","i","c">>>>,
                 location |-> "National Literature Section - Shelf M",
                 copies |->
                   <<[id |-> "AB-001", condition |-> "Excellent",
                       status |-> "Available"],
                      [id |-> "AB-002", condition |-> "Fair (Highlighted)",
                       status |-> "Borrowed"]>>]],
      \* 2
      [key |-> <<"o","p","e","r","a","t","i","o","n","_","m","a","s","s","a",
                "c","r","e">>,
       data |-> [title |-> <<"O","p","e","r","a","t","i","o","n"," ","M","a","s",
                      "s","a","c","r","e">>,
                 author |-> <<"R","o","d","o","l","f","o"," ","W","a","l","s","h">>,
                 tags |->
                   <<<<"N","O","N","_","F","I","C","T","I","O","N">>,
                      <<"J","o","u","r","n","a","l","i","s","m">>,
                      <<"C","h","r","o","n","i","c","l","e">>>>,
                 location |-> "Journalism and Chronicle Section",
                 copies |->
                   <<[id |-> "OM-101", condition |-> "Good",
                       status |-> "Available"],
                      [id |-> "OM-102", condition |-> "Poor (Loose pages)",
                       status |-> "Repair"],
                      [id |-> "OM-103", condition |-> "Excellent",
                       status |-> "Available"]>>]],
      \* 3
      [key |-> <<"c","a","m","p","o","s","_","d","e","_","c","a","s","t","i",
                "l","l","a">>,
       data |-> [title |-> <<"F","i","e","l","d","s"," ","o","f"," ","C","a","s",
                      "t","i","l","e">>,
                 author |-> <<"A","n","t","o","n","i","o"," ","M","a","c","h","a",
                      "d","o">>,
                 tags |->
                   <<<<"P","o","e","t","r","y">>,
                      <<"G","e","n","e","r","a","t","i","o","n"," ","o","f",
                        " ","9","8">>,
                      <<"C","l","a","s","s","i","c">>>>,
                 location |-> "Spanish Poetry Section - Shelf M",
                 copies |->
                   <<[id |-> "CC-001", condition |-> "Excellent",
                       status |-> "Available"],
                      [id |-> "CC-002", condition |-> "Fair",
                       status |-> "Available"]>>]],
      \* 4
      [key |-> <<"n","o","_","h","a","b","r","a","_","p","e","n","a","s","_",
                "o","l","v","i","d","o">>,
       data |-> [title |-> <<"N","o"," ","M","o","r","e"," ","S","o","r","r","o",
                      "w","s"," ","o","r"," ","F","o","r","g","e","t","t",
                      "i","n","g">>,
                 author |-> <<"O","s","v","a","l","d","o"," ","S","o","r","i","a",
                      "n","o">>,
                 tags |->
                   <<<<"N","o","v","e","l">>,
                      <<"D","a","r","k"," ","H","u","m","o","r">>,
                      <<"S","T","A","N","D","A","R","D">>>>,
                 location |-> "Latin American Literature Section",
                 copies |->
                   <<[id |-> "NP-050", condition |-> "Good",
                       status |-> "Available"]>>]],
      \* 5
      [key |-> <<"e","l","_","e","t","e","r","n","a","u","t","a">>,
       data |-> [title |-> <<"T","h","e"," ","E","t","e","r","n","a","u","t">>,
                 author |-> <<"H","e_acute","c","t","o","r"," ","G","."," ","O","e",
                      "s","t","e","r","h","e","l","d"," ","&"," ","S","o",
                      "l","a","n","o"," ","L","o_acute","p","e","z">>,
                 tags |->
                   <<<<"C","o","m","i","c">>,
                      <<"S","c","i","e","n","c","e"," ","F","i","c","t","i",
                        "o","n">>,
                      <<"C","l","a","s","s","i","c">>,
                      <<"S","T","A","N","D","A","R","D">>>>,
                 location |-> "Graphic Novel Section - Shelf E",
                 copies |->
                   <<[id |-> "ET-001", condition |-> "Excellent (Integral Edition)",
                       status |-> "Available"],
                      [id |-> "ET-002", condition |-> "Good (Worn softcover)",
                       status |-> "Borrowed"],
                      [id |-> "ET-003", condition |-> "Poor (Missing final pages)",
                       status |-> "Withdrawn"]>>]],
      \* 6
      [key |-> <<"e","l","_","e","t","e","r","n","a","u","t","a","_","i",
                "i">>,
       data |-> [title |-> <<"T","h","e"," ","E","t","e","r","n","a","u","t"," ",
                      "I","I">>,
                 author |-> <<"H","e_acute","c","t","o","r"," ","G","."," ","O","e",
                      "s","t","e","r","h","e","l","d"," ","&"," ","S","o",
                      "l","a","n","o"," ","L","o_acute","p","e","z">>,
                 tags |->
                   <<<<"C","o","m","i","c">>,
                      <<"P","o","l","i","t","i","c","s">>,
                      <<"D","r","a","m","a">>,
                      <<"N","O","V","E","L","_","E","X","T","E","N","D","E",
                        "D">>>>,
                 location |-> "Graphic Novel Section - Shelf E",
                 copies |->
                   <<[id |-> "ET2-001", condition |-> "Excellent",
                       status |-> "Available"],
                      [id |-> "ET2-002", condition |-> "Fair (Damaged spine)",
                       status |-> "Available"]>>]],
      \* 7
      [key |-> <<"c","i","e","n","_","a","n","o","s","_","s","o","l","e","d",
                "a","d">>,
       data |-> [title |-> <<"O","n","e"," ","H","u","n","d","r","e","d"," ","Y",
                      "e","a","r","s"," ","o","f"," ","S","o","l","i","t",
                      "u","d","e">>,
                 author |-> <<"G","a","b","r","i","e","l"," ","G","a","r","c",
                      "i_acute","a"," ","M","a_acute","r","q","u","e","z">>,
                 tags |->
                   <<<<"N","O","V","E","L","_","E","X","T","E","N","D","E",
                        "D">>,
                      <<"M","a","g","i","c","a","l"," ","R","e","a","l","i",
                        "s","m">>,
                      <<"C","l","a","s","s","i","c">>>>,
                 location |-> "Latin American Literature Section - Shelf G",
                 copies |->
                   <<[id |-> "CS-001", condition |-> "Excellent",
                       status |-> "Borrowed"],
                      [id |-> "CS-002", condition |-> "Good",
                       status |-> "Available"]>>]],
      \* 8
      [key |-> <<"e","l","_","t","u","n","e","l">>,
       data |-> [title |-> <<"T","h","e"," ","T","u","n","n","e","l">>,
                 author |-> <<"E","r","n","e","s","t","o"," ","S","a","b","a","t",
                      "o">>,
                 tags |->
                   <<<<"P","s","y","c","h","o","l","o","g","i","c","a","l",
                        " ","N","o","v","e","l">>,
                      <<"S","T","A","N","D","A","R","D">>>>,
                 location |-> "Argentine Literature Section - Shelf S",
                 copies |->
                   <<[id |-> "TN-001", condition |-> "Excellent",
                       status |-> "Available"]>>]],
      \* 9
      [key |-> <<"n","i","e","b","l","a">>,
       data |-> [title |-> <<"F","o","g">>,
                 author |-> <<"M","i","g","u","e","l"," ","d","e"," ","U","n","a",
                      "m","u","n","o">>,
                 tags |->
                   <<<<"N","o","v","e","l">>,
                      <<"N","i","v","o","l","a">>,
                      <<"G","e","n","e","r","a","t","i","o","n"," ","o","f",
                        " ","9","8">>,
                      <<"C","l","a","s","s","i","c">>>>,
                 location |-> "Spanish Literature Section - Shelf U",
                 copies |->
                   <<[id |-> "NM-001", condition |-> "Excellent",
                       status |-> "Available"]>>]],
      \* 10
      [key |-> <<"e","l","_","a","r","b","o","l","_","c","i","e","n","c","i",
                "a">>,
       data |-> [title |-> <<"T","h","e"," ","T","r","e","e"," ","o","f"," ","K",
                      "n","o","w","l","e","d","g","e">>,
                 author |-> <<"P","i_acute","o"," ","B","a","r","o","j","a">>,
                 tags |->
                   <<<<"N","o","v","e","l">>,
                      <<"G","e","n","e","r","a","t","i","o","n"," ","o","f",
                        " ","9","8">>,
                      <<"C","l","a","s","s","i","c">>>>,
                 location |-> "Spanish Literature Section - Shelf B",
                 copies |->
                   <<[id |-> "AC-001", condition |-> "Good",
                       status |-> "Available"]>>]],
      \* 11
      [key |-> <<"e","l","_","h","o","m","b","r","e","_","q","u","e","_","f",
                "u","e","_","j","u","e","v","e","s">>,
       data |-> [title |-> <<"T","h","e"," ","M","a","n"," ","W","h","o"," ","W",
                      "a","s"," ","T","h","u","r","s","d","a","y">>,
                 author |-> <<"G","."," ","K","."," ","C","h","e","s","t","e","r",
                      "t","o","n">>,
                 tags |->
                   <<<<"N","o","v","e","l">>,
                      <<"F","i","c","t","i","o","n">>,
                      <<"M","y","s","t","e","r","y">>>>,
                 location |-> "Universal Literature Section - Shelf C",
                 copies |->
                   <<[id |-> "HJ-001", condition |-> "Excellent",
                       status |-> "Borrowed"]>>]],
      \* 12
      [key |-> <<"m","a","r","t","i","n","_","f","i","e","r","r","o">>,
       data |-> [title |-> <<"T","h","e"," ","G","a","u","c","h","o"," ","M","a",
                      "r","t","i_acute","n"," ","F","i","e","r","r","o"," ",
                      "a","n","d"," ","T","h","e"," ","R","e","t","u","r",
                      "n"," ","o","f"," ","M","a","r","t","i_acute","n"," ",
                      "F","i","e","r","r","o">>,
                 author |-> <<"J","o","s","e_acute"," ","H","e","r","n","a_acute",
                      "n","d","e","z">>,
                 tags |->
                   <<<<"P","o","e","t","r","y">>,
                      <<"E","p","i","c">>,
                      <<"A","r","g","e","n","t","i","n","e"," ","C","l","a",
                        "s","s","i","c">>,
                      <<"R","E","F","E","R","E","N","C","E">>>>,
                 location |-> "National Literature Section - Shelf H",
                 copies |->
                   <<[id |-> "MF-001", condition |-> "Excellent (Bilingual Edition)",
                       status |-> "Available"]>>]],
      \* 13
      [key |-> <<"l","o","s","_","d","e","m","o","n","i","o","s">>,
       data |-> [title |-> <<"D","e","m","o","n","s">>,
                 author |-> <<"F","y","o","d","o","r"," ","D","o","s","t","o","e",
                      "v","s","k","y">>,
                 tags |->
                   <<<<"N","O","V","E","L","_","E","X","T","E","N","D","E",
                        "D">>,
                      <<"R","u","s","s","i","a","n"," ","C","l","a","s","s",
                        "i","c">>,
                      <<"P","h","i","l","o","s","o","p","h","y">>>>,
                 location |-> "Universal Literature Section - Shelf D",
                 copies |->
                   <<[id |-> "LD-001", condition |-> "Excellent",
                       status |-> "Available"],
                      [id |-> "LD-002", condition |-> "Fair",
                       status |-> "Borrowed"]>>]],
      \* 14
      [key |-> <<"c","r","i","s","t","o","_","v","u","e","l","v","e">>,
       data |-> [title |-> <<"C","h","r","i","s","t"," ","R","e","t","u","r","n",
                      "s">>,
                 author |-> <<"L","e","o","n","a","r","d","o"," ","C","a","s","t",
                      "e","l","l","a","n","i">>,
                 tags |->
                   <<<<"S","t","o","r","i","e","s">>,
                      <<"R","e","l","i","g","i","o","n">>,
                      <<"P","h","i","l","o","s","o","p","h","y">>>>,
                 location |-> "National Thought Section - Shelf C",
                 copies |->
                   <<[id |-> "CV-001", condition |-> "Good",
                       status |-> "Available"]>>]],
      \* 15
      [key |-> <<"e","l","_","m","a","l","_","d","e","_","s","i","g","l",
                "o">>,
       data |-> [title |-> <<"T","h","e"," ","S","i","c","k","n","e","s","s"," ",
                      "o","f"," ","t","h","e"," ","C","e","n","t","u","r",
                      "y">>,
                 author |-> <<"M","a","n","u","e","l"," ","G","a_acute","l","v","e",
                      "z">>,
                 tags |->
                   <<<<"E","s","s","a","y">>,
                      <<"N","a","t","i","o","n","a","l","i","s","m">>,
                      <<"P","o","l","i","t","i","c","s">>>>,
                 location |-> "Argentine Essay Section - Shelf G",
                 copies |->
                   <<[id |-> "MS-001", condition |-> "Excellent",
                       status |-> "Available"]>>]],
      \* 16
      [key |-> <<"h","o","m","b","r","e","_","b","u","s","c","a","_","s","e",
                "n","t","i","d","o">>,
       data |-> [title |-> <<"M","a","n","'","s"," ","S","e","a","r","c","h"," ",
                      "f","o","r"," ","M","e","a","n","i","n","g">>,
                 author |-> <<"V","i","k","t","o","r"," ","F","r","a","n","k","l">>,
                 tags |->
                   <<<<"N","o","n","-","F","i","c","t","i","o","n">>,
                      <<"P","s","y","c","h","o","l","o","g","y">>,
                      <<"L","o","g","o","t","h","e","r","a","p","y">>>>,
                 location |-> "Philosophy and Psychology Section - Shelf F",
                 copies |->
                   <<[id |-> "HS-001", condition |-> "Excellent",
                       status |-> "Available"],
                      [id |-> "HS-002", condition |-> "Good",
                       status |-> "Available"]>>]]
    >>

\* ------------------------------------------------------------------------
\* Search (alec_utils.py)
\* ------------------------------------------------------------------------
\* the criteria of a search
Criteria ==
    [title |-> <<"t","i","t","l","e">>,
     author |-> <<"a","u","t","h","o","r">>,
     tag |-> <<"t","a","g">>]

\* variant: the catalogue key is not looked at
matches_NoKey(query_norm, key, data, criteria) ==
    \/ /\ criteria \in {None, Criteria.title}
       /\ Contains(normalize_text(data.title), query_norm)
    \/ /\ criteria \in {None, Criteria.author}
       /\ Contains(normalize_text(Get(data, "author", <<>>)), query_norm)
    \/ /\ criteria \in {None, Criteria.tag}
       /\ \E i \in DOMAIN Get(data, "tags", <<>>) :
             Contains(normalize_text(Get(data, "tags", <<>>)[i]), query_norm)

\* variant: every field is searched whatever the criteria
matches_AnyField(query_norm, key, data, criteria) ==
    \/ Contains(normalize_text(data.title), query_norm)
    \/ Contains(key, query_norm)
    \/ Contains(normalize_text(Get(data, "author", <<>>)), query_norm)
    \/ \E i \in DOMAIN Get(data, "tags", <<>>) :
          Contains(normalize_text(Get(data, "tags", <<>>)[i]), query_norm)

\* the body of the loop over the inventory
matches(query_norm, key, data, criteria) ==
    \/ /\ criteria \in {None, Criteria.title}
       /\ \/ Contains(normalize_text(data.title), query_norm)
          \/ Contains(key, query_norm)
    \/ /\ criteria \in {None, Criteria.author}
       /\ Contains(normalize_text(Get(data, "author", <<>>)), query_norm)
    \/ /\ criteria \in {None, Criteria.tag}
       /\ \E i \in DOMAIN Get(data, "tags", <<>>) :
             Contains(normalize_text(Get(data, "tags", <<>>)[i]), query_norm)

\* variant: a query that normalizes to nothing matches nothing
search_in_inventory_SkipBlank(query, inventory, criteria) ==
    LET query_norm == normalize_text(query)
    IN  IF query_norm = <<>> THEN <<>>
        ELSE SelectSeq(inventory,
                 LAMBDA item : matches(query_norm, item.key, item.data, criteria))
search_in_inventory(query, inventory, criteria) ==
    LET query_norm == normalize_text(query)
    IN  SelectSeq(inventory,
            LAMBDA item : matches(query_norm, item.key, item.data, criteria))

\* ------------------------------------------------------------------------
\* Return date (alec_utils.py)
\* ------------------------------------------------------------------------
\* date + datetime.timedelta(days)
RECURSIVE plus_days(_, _)
plus_days(date, days) ==
    LET leap == date.year % 4 = 0
                   /\ (date.year % 100 # 0 \/ date.year % 400 = 0)
        last == IF date.month = 2 THEN (IF leap THEN 29 ELSE 28)
                ELSE IF date.month \in {4, 6, 9, 11} THEN 30
                ELSE 31
    IN  IF days = 0 THEN date
        ELSE IF date.day < last
        THEN plus_days([date EXCEPT !.day = @ + 1], days - 1)
        ELSE IF date.month < 12
        THEN plus_days([date EXCEPT !.day = 1, !.month = @ + 1], days - 1)
        ELSE plus_days([year |-> date.year + 1, month |-> 1, day |-> 1],
                       days - 1)

calculate_return_date(today, days) ==
    LET date == plus_days(today, days)
        months == <<"January", "February", "March", "April", "May", "June",
                    "July", "August", "September", "October", "November",
                    "December">>
    IN  <<date.day, " of ", months[date.month], " of ", date.year>>

\* ------------------------------------------------------------------------
\* Tools of Alec (alec_a2a.py)
\* ------------------------------------------------------------------------
\* a JSON value that is neither a string nor null, and is truthy
Number == <<"Number">>

AlecError(reason, message) ==
    [type |-> "error", payload |-> [reason |-> reason, message |-> message]]

\* an exception raised inside the try block
Raise(message) == [type |-> "raise", message |-> message]

\* variant: no except clause, the exception leaves the handler
except_Exception_Reraise(outcome) ==
    outcome

\* the except Exception clause of both handlers
except_Exception(outcome) ==
    IF outcome.type = "raise"
    THEN AlecError("exception", outcome.message)
    ELSE outcome

\* variant: the author given is not looked at
author_filter_Ignore(results, author) ==
    results

\* the list comprehension that keeps the results of the author given
author_filter(results, author) ==
    SelectSeq(results,
        LAMBDA r : Contains(normalize_text(Get(r.data, "author", <<>>)),
                            normalize_text(author)))

alec_check_availability(args, today) ==
    except_Exception(
    IF args.kind = "invalid_json"
    THEN AlecError("invalid_json", "The argument must be valid JSON")
    ELSE IF args.kind = "not_dict"
    THEN Raise("object has no attribute 'get'")
    ELSE IF ~Truthy(args.title)
    THEN AlecError("missing_title", "Book title is required")
    ELSE IF args.title = Number
    THEN Raise("object has no attribute 'lower'")
    ELSE LET found == search_in_inventory(args.title, GEPEBIA_INVENTORY,
                                          Criteria.title)
             filtered == Truthy(args.author) /\ found # <<>>
         IN  IF filtered /\ args.author = Number
             THEN Raise("object has no attribute 'lower'")
             ELSE LET results == IF filtered
                                 THEN author_filter(found, args.author)
                                 ELSE found
                      book == results[1].data
                      availability_ ==
                          check_availability_status(Get(book, "copies", <<>>))
                      loan_info ==
                          calculate_loan_term(LOAN_RULES,
                                              Get(book, "tags", <<>>))
                  IN  IF results = <<>>
                      THEN [type |-> "book_not_found",
                            payload |->
                              [search_title |-> args.title,
                               message |-> <<"I couldn't find '", args.title,
                                             "' in the catalog">>,
                               suggestion |->
                                 "You can search by author or ask me for similar recommendations"]]
                      ELSE IF Len(results) > 1
                      THEN [type |-> "multiple_results",
                            payload |->
                              [search_title |-> args.title,
                               options |->
                                 [i \in DOMAIN results |->
                                    [title |-> results[i].data.title,
                                     author |-> Get(results[i].data, "author",
                                                    "Unknown Author")]]]]
                      ELSE IF availability_.available
                      THEN [type |-> "book_available",
                            payload |->
                              [title |-> book.title,
                               author |-> Get(book, "author", "Unknown Author"),
                               available_copies |-> availability_.quantity,
                               location |-> Get(book, "location",
                                                "Location not specified"),
                               loan_days |-> loan_info.days,
                               applied_rule |-> loan_info.applied_rule,
                               return_date |->
                                 calculate_return_date(today, loan_info.days),
                               conditions |-> availability_.conditions]]
                      ELSE [type |-> "book_not_available",
                            payload |->
                              [title |-> book.title,
                               author |-> Get(book, "author", "Unknown Author"),
                               reason |-> availability_.reason,
                               borrowed |-> availability_.borrowed,
                               under_repair |-> availability_.under_repair,
                               message |-> "All copies are currently borrowed"]])

\* variant: at most three books are listed
format_results_FirstThree(results) ==
    [i \in 1..(IF Len(results) < 3 THEN Len(results) ELSE 3) |->
        LET data == results[i].data
            availability_ == check_availability_status(Get(data, "copies", <<>>))
            loan_info == calculate_loan_term(LOAN_RULES, Get(data, "tags", <<>>))
        IN  [title |-> data.title,
             author |-> Get(data, "author", "Unknown Author"),
             available |-> availability_.available,
             available_copies |-> availability_.quantity,
             location |-> Get(data, "location", ""),
             loan_days |-> loan_info.days]]

\* the loop that builds books
format_results(results) ==
    [i \in DOMAIN results |->
        LET data == results[i].data
            availability_ == check_availability_status(Get(data, "copies", <<>>))
            loan_info == calculate_loan_term(LOAN_RULES, Get(data, "tags", <<>>))
        IN  [title |-> data.title,
             author |-> Get(data, "author", "Unknown Author"),
             available |-> availability_.available,
             available_copies |-> availability_.quantity,
             location |-> Get(data, "location", ""),
             loan_days |-> loan_info.days]]

alec_search_books(args) ==
    except_Exception(
    IF args.kind = "invalid_json"
    THEN AlecError("invalid_json", "The argument must be valid JSON")
    ELSE IF args.kind = "not_dict"
    THEN Raise("object has no attribute 'get'")
    ELSE IF ~Truthy(args.query)
    THEN AlecError("missing_query", "A search term is required")
    ELSE IF args.query = Number
    THEN Raise("object has no attribute 'lower'")
    ELSE LET results == search_in_inventory(args.query, GEPEBIA_INVENTORY,
                                            args.criteria)
             books == format_results(results)
         IN  [type |-> "search_results",
              payload |->
                [query |-> args.query,
                 criteria |-> IF Truthy(args.criteria) THEN args.criteria
                              ELSE <<"a","l","l">>,
                 total_results |-> Len(books),
                 books |-> books]])

\* ------------------------------------------------------------------------
\* Requests the model issues
\* ------------------------------------------------------------------------
ConvIds == {"c1", "c2"}

\* the dialogue followed for one conversation
OneConv == {"c1"}

Messages ==
    { None,
      <<>>,
      <<" ","J","o"," ">>,
      <<"1","2","3","4","5">>,
      <<"3","8","1","-","5","5","5">>,
      <<"Y","e","s","!">>,
      <<"N","o","."," ">> }

RegistrationArgs(kind, action, conv_id, user_msg) ==
    [kind |-> kind, action |-> action, conversation_id |-> conv_id,
     user_message |-> user_msg]

ProfileArgs(kind, user_id) == [kind |-> kind, user_id |-> user_id]

\* ------------------------------------------------------------------------
\* State
\* ------------------------------------------------------------------------
VARIABLES
    REGISTRATIONS,   \* gina_utils.REGISTRATIONS
    USED_USER_IDS,   \* gina_utils.USED_USER_IDS
    users,           \* the users table of gina_users.db
    now,             \* time.time()
    request,         \* the request handled last
    response,        \* the response it got
    effects,         \* what that call did: ids generated, saves attempted,
                     \* sessions swept, stage read from the session
    issued,          \* every value generate_user_id has returned
    calls,           \* the local variables of the overlapping handler calls
    base,            \* the process state when the first of them began
    sweep,           \* the local variables of a sweep that overlaps them
    log,             \* the calls of the dialogue followed, oldest first
    copies,          \* the copy list handed to check_availability_status
    availability,    \* the dict it returned
    applied,         \* the library function or tool of Alec applied, with
                     \* its arguments
    result           \* what it returned

vars == <<REGISTRATIONS, USED_USER_IDS, users, now, request, response,
          effects, issued, calls, base, sweep, log, copies, availability,
          applied, result>>

\* the variables the sequential registration handlers never touch
aux == <<sweep, log, copies, availability, applied, result>>

Threads == {1, 2}

NoState == [stage |-> "", collected |-> EmptyDict,
            created_at |-> 0, last_activity |-> 0]

\* a call holds references to the session dict and to its collected dict:
\* live says that its session dict is still the one in the store (else st is
\* the dict it holds), clive that its collected dict is still the one its
\* session dict points to (else col is the dict it holds)
IdleCall ==
    [pc |-> "idle", msg |-> None, live |-> FALSE, st |-> NoState,
     clive |-> FALSE, col |-> EmptyDict, user_id |-> NoUserId,
     profile |-> [name |-> None, phone |-> None],
     response |-> [type |-> "none"]]

NoBase == [set |-> FALSE]

NoEffects == [generated |-> <<>>, saves |-> <<>>, swept |-> -1, stage |-> "",
              lookup |-> "none"]

IdleSweep ==
    [pc |-> "idle", args |-> ProfileArgs("dict", NoUserId), db_ok |-> TRUE,
     now_ |-> 0, size |-> 0, visited |-> {}, stale_ids |-> <<>>, count |-> 0]

NoAvailability == [available |-> FALSE, quantity |-> -1]

\* no sweep under way, no dialogue followed, no availability asked for
InitAux ==
    /\ sweep = IdleSweep
    /\ log = <<>>
    /\ copies = <<>>
    /\ availability = NoAvailability
    /\ applied = [fn |-> "none"]
    /\ result = [returned |-> FALSE]

\* the registration engine after the modules are loaded
InitRegistration ==
    /\ REGISTRATIONS = EmptyDict
    /\ USED_USER_IDS = {}
    /\ users = EmptyDict
    /\ now = 0
    /\ request = [tool |-> "none"]
    /\ response = [type |-> "none"]
    /\ effects = NoEffects
    /\ issued = {}
    /\ calls = [t \in Threads |-> IdleCall]
    /\ base = NoBase

Init == InitRegistration /\ InitAux

\* one request to gina_handle_registration_step, handled from first to last
\* statement
RegistrationCall(args, new_id, draws, db_ok) ==
    \E out \in {gina_handle_registration_step(REGISTRATIONS, USED_USER_IDS,
                    users, now, args, new_id, draws, db_ok)} :
        /\ REGISTRATIONS' = out.regs
        /\ USED_USER_IDS' = out.used
        /\ users' = out.table
        /\ response' = out.response
        /\ effects' = [generated |-> out.generated, saves |-> out.saves,
                       swept |-> -1, stage |-> out.stage, lookup |-> "none"]
        /\ issued' = issued \cup Range(out.generated)
        /\ request' = [tool |-> "gina_handle_registration_step", args |-> args]
        /\ UNCHANGED <<now, calls, base, sweep, copies, availability, applied,
                       result>>

RegistrationStep(args, new_id, draws, db_ok) ==
    /\ RegistrationCall(args, new_id, draws, db_ok)
    /\ UNCHANGED log

NoDraws == [i \in 1..MaxAttempts |-> 0]

StartRegistration(Convs) ==
    \E new_id \in Convs :
        RegistrationStep(RegistrationArgs("dict", "start_registration", "", None),
                         new_id, NoDraws, TRUE)

\* random.choices and sqlite are reached only by an affirmative answer at
\* stage confirm; elsewhere their outcomes are not drawn
ReachesSave(conv_id, user_msg) ==
    /\ conv_id \in DOMAIN REGISTRATIONS
    /\ REGISTRATIONS[conv_id].stage = "confirm"
    /\ is_affirmative(IF Truthy(user_msg) THEN user_msg ELSE <<>>)

\* one sequence of draws for each result generate_user_id can give now
DistinctDraws ==
    {d \in DrawSeqs :
        d = CHOOSE e \in DrawSeqs :
                generate_user_id(USED_USER_IDS, e, now)
                    = generate_user_id(USED_USER_IDS, d, now)}

\* the message is not read when the conversation id is missing
ContinueInputs(Convs, Msgs) ==
    (Convs \X Msgs) \cup {<<"", None>>}

ContinueRegistration(Convs, Msgs) ==
    \E input \in ContinueInputs(Convs, Msgs) :
      \E conv_id \in {input[1]}, user_msg \in {input[2]} :
      \E draws \in IF ReachesSave(conv_id, user_msg) THEN DistinctDraws ELSE {NoDraws},
         db_ok \in IF ReachesSave(conv_id, user_msg) THEN BOOLEAN ELSE {TRUE} :
        RegistrationStep(RegistrationArgs("dict", "continue_registration",
                                          conv_id, user_msg),
                         "", draws, db_ok)

MalformedRegistration ==
    \E args \in { RegistrationArgs("invalid_json", "", "", None),
                  RegistrationArgs("not_dict", "", "", None),
                  RegistrationArgs("dict", "", "", None),
                  RegistrationArgs("dict", "get_profile", "", None) } :
        RegistrationStep(args, "", NoDraws, TRUE)

GetProfile ==
    \E args \in { ProfileArgs("invalid_json", NoUserId),
                  ProfileArgs("not_dict", NoUserId) }
                \cup { ProfileArgs("dict", u) : u \in UserIds \cup {NoUserId} },
       db_ok \in BOOLEAN :
        \E out \in {gina_get_user_profile(REGISTRATIONS, users, now, args, db_ok)} :
            /\ REGISTRATIONS' = out.regs
            /\ response' = out.response
            /\ effects' = [NoEffects EXCEPT !.swept = out.swept,
                                            !.lookup = out.lookup]
            /\ request' = [tool |-> "gina_get_user_profile", args |-> args]
            /\ UNCHANGED <<USED_USER_IDS, users, now, issued, calls, base, aux>>

Tick(Steps, Limit) ==
    \E d \in Steps :
        /\ now + d <= Limit
        /\ now' = now + d
        /\ request' = [tool |-> "clock"]
        /\ response' = [type |-> "none"]
        /\ effects' = NoEffects
        /\ UNCHANGED <<REGISTRATIONS, USED_USER_IDS, users, issued, calls, base, aux>>

\* The registration dialogue: every message, the clock jumping past the
\* session timeout.
Next ==
    \/ StartRegistration(OneConv)
    \/ ContinueRegistration(OneConv, Messages)
    \/ MalformedRegistration
    \/ GetProfile
    \/ Tick({REGISTRATION_TIMEOUT_SECONDS + 1}, MaxTime)

Spec == Init /\ [][Next]_vars

\* The session store: two conversations, the clock stepping just below, onto
\* and just above the session timeout.
NextStore ==
    \/ StartRegistration(ConvIds)
    \/ ContinueRegistration(ConvIds, { <<" ","J","o"," ">> })
    \/ GetProfile
    \/ Tick({ REGISTRATION_TIMEOUT_SECONDS - 1, REGISTRATION_TIMEOUT_SECONDS,
              REGISTRATION_TIMEOUT_SECONDS + 1 }, MaxStoreTime)

SpecStore == Init /\ [][NextStore]_vars

\* The name and phone steps: names and phone numbers on both sides of each
\* test of the validators, none of them an affirmative word.
InputMessages ==
    { None,
      <<>>,
      <<" ","J","o"," ">>,
      <<"J">>,
      <<"M","a","r","y","1">>,
      <<"J","o","s","e_acute">>,
      <<"c_cedilla","a">>,
      <<"a","-","-">>,
      <<"N","o">>,
      <<"1","2","3","4","5">>,
      <<"1","2","3","4","5","6">>,
      <<"3","8","1","-","5","5","5">>,
      <<"1","2","3","4","5","6","7","8","9","0","1","2","3","4","5">>,
      <<"1","2","3","4","5","6","7","8","9","0","1","2","3","4","5","6">>,
      <<"n","o"," ","1","2","3","4","5","6">>,
      <<"S","K","I","P">> }

NextInput ==
    \/ StartRegistration(OneConv)
    \/ ContinueRegistration(OneConv, InputMessages)

SpecInput == Init /\ [][NextInput]_vars

\* One caller's dialogue, followed call by call from start_registration on:
\* log holds each request of the dialogue with what sqlite was set to do and
\* the response it got.
DialogueLen == 4

Logged(db_ok) ==
    [request |-> request', db_ok |-> db_ok, response |-> response']

DialogueStart ==
    \E new_id \in OneConv :
        /\ RegistrationCall(RegistrationArgs("dict", "start_registration", "", None),
                            new_id, NoDraws, TRUE)
        /\ log' = << Logged(TRUE) >>

DialogueContinue ==
    /\ log # <<>>
    /\ Len(log) < DialogueLen
    /\ \E input \in ContinueInputs(OneConv,
                       { <<" ","J","o"," ">>, <<"s","k","i","p">>,
                         <<"3","8","1","-","5","5","5">>,
                         <<"Y","e","s","!">> }) :
         \E conv_id \in {input[1]}, user_msg \in {input[2]} :
         \E draws \in IF ReachesSave(conv_id, user_msg) THEN DistinctDraws ELSE {NoDraws},
            db_ok \in IF ReachesSave(conv_id, user_msg) THEN BOOLEAN ELSE {TRUE} :
           /\ RegistrationCall(RegistrationArgs("dict", "continue_registration",
                                                conv_id, user_msg),
                               "", draws, db_ok)
           /\ log' = Append(log, Logged(db_ok))

NextDialogue ==
    \/ DialogueStart
    \/ DialogueContinue

SpecDialogue == Init /\ [][NextDialogue]_vars

\* One caller's dialogue with second thoughts, followed until a profile is
\* saved: log holds the calls since the session was opened or, if the
\* caller has rejected a summary since, that rejection, which also records
\* the collected data it dropped, and the calls after it.
RetryLen == 4

RetryContinue ==
    /\ log # <<>>
    /\ Len(log) < RetryLen
    /\ users = EmptyDict
    /\ \E input \in ContinueInputs(OneConv,
                       { <<" ","J","o"," ">>, <<"A","n","n">>,
                         <<"3","8","1","-","5","5","5">>,
                         <<"N","o","."," ">>, <<"Y","e","s","!">> }) :
         \E conv_id \in {input[1]}, user_msg \in {input[2]} :
         \E draws \in IF ReachesSave(conv_id, user_msg) THEN DistinctDraws ELSE {NoDraws},
            db_ok \in IF ReachesSave(conv_id, user_msg) THEN BOOLEAN ELSE {TRUE} :
           /\ RegistrationCall(RegistrationArgs("dict", "continue_registration",
                                                conv_id, user_msg),
                               "", draws, db_ok)
           /\ log' = IF effects'.stage = "confirm"
                          /\ response'.type = "ask_user_data"
                     THEN << [request |-> request', db_ok |-> db_ok,
                              response |-> response',
                              dropped |-> REGISTRATIONS[conv_id].collected] >>
                     ELSE Append(log, Logged(db_ok))

NextRetry ==
    \/ DialogueStart
    \/ RetryContinue

SpecRetry == Init /\ [][NextRetry]_vars
\* Two conversations side by side, each able to run to completion, with the
\* clock jumping past the session timeout.
NextPair ==
    \/ StartRegistration(ConvIds)
    \/ ContinueRegistration(ConvIds,
           { <<" ","J","o"," ">>, <<"Y","e","s","!">> })
    \/ GetProfile
    \/ Tick({REGISTRATION_TIMEOUT_SECONDS + 1}, MaxTime)

SpecPair == Init /\ [][NextPair]_vars

\* ------------------------------------------------------------------------
\* A store that holds a session with a stage no handler writes.  The stage
\* test at the end of the state machine is reached only from such a store.
\* ------------------------------------------------------------------------
CorruptStages == {"archived", "awaiting_email"}

InitCorrupt ==
    /\ \E stage \in CorruptStages,
          collected \in {EmptyDict, Put(EmptyDict, "name", <<"J","o">>)} :
           REGISTRATIONS = Put(EmptyDict, "c1",
                               [stage |-> stage, collected |-> collected,
                                created_at |-> 0, last_activity |-> 0])
    /\ USED_USER_IDS = {}
    /\ users = EmptyDict
    /\ now = 0
    /\ request = [tool |-> "none"]
    /\ response = [type |-> "none"]
    /\ effects = NoEffects
    /\ issued = {}
    /\ calls = [t \in Threads |-> IdleCall]
    /\ base = NoBase
    /\ InitAux

SpecCorrupt == InitCorrupt /\ [][Next]_vars

\* ------------------------------------------------------------------------
\* Two overlapping continue_registration calls for one conversation.  The
\* handler takes no lock, so the calls interleave statement by statement
\* (gina_a2a.py 202-373).  The session is first brought to some stage by
\* requests handled one at a time.
\* ------------------------------------------------------------------------
ConcConv == "c1"

ConcMessages ==
    { <<" ","J","o"," ">>, <<"3","8","1","-","5","5","5">>,
      <<"Y","e","s","!">>, <<"N","o","."," ">> }

Other(t) == 3 - t

AllIdle == \A t \in Threads : calls[t].pc = "idle"

\* the session dict and the collected dict a call refers to
StateOf(t) == IF calls[t].live THEN REGISTRATIONS[ConcConv] ELSE calls[t].st

CollectedOf(t) ==
    IF calls[t].clive THEN StateOf(t).collected ELSE calls[t].col

\* state[field] = value  through the call's reference
WriteState(t, field, value) ==
    IF calls[t].live
    THEN [regs |-> [REGISTRATIONS EXCEPT ![ConcConv][field] = value],
          call |-> calls[t]]
    ELSE [regs |-> REGISTRATIONS,
          call |-> [calls[t] EXCEPT !.st[field] = value]]

\* collected[key] = value  through the call's reference
WriteCollected(t, key, value) ==
    IF calls[t].clive
    THEN WriteState(t, "collected", Put(StateOf(t).collected, key, value))
    ELSE [regs |-> REGISTRATIONS,
          call |-> [calls[t] EXCEPT !.col = Put(@, key, value)]]

Finish(call, response_) == [call EXCEPT !.pc = "done", !.response = response_]

\* where the chain of stage tests sends a call that holds stage
Dispatch(stage, msg) ==
    IF stage = "started" THEN "started_write"
    ELSE IF stage = "awaiting_name"
    THEN (IF Truthy(validate_name(msg)) THEN "name_store" ELSE "name_invalid")
    ELSE IF stage = "awaiting_phone" THEN "phone_store"
    ELSE IF stage = "confirm"
    THEN (IF is_affirmative(msg) THEN "gen" ELSE "reject_stage")
    ELSE IF stage = "done" THEN "info"
    ELSE "unknown_stage"

SequentialStep ==
    /\ AllIdle
    /\ \/ StartRegistration(OneConv)
       \/ ContinueRegistration(OneConv, ConcMessages)

Begin(t) ==
    /\ calls[t].pc = "idle"
    /\ \E msg \in ConcMessages :
           calls' = [calls EXCEPT ![t] = [IdleCall EXCEPT !.pc = "get", !.msg = msg]]
    /\ base' = IF base.set THEN base
               ELSE [set |-> TRUE, regs |-> REGISTRATIONS,
                     used |-> USED_USER_IDS, table |-> users]
    /\ UNCHANGED <<REGISTRATIONS, USED_USER_IDS, users, now, request,
                   response, effects, issued, aux>>

\* state = get_registration_state(conv_id); if not state: ...
Call_get(t) ==
    /\ calls[t].pc = "get"
    /\ calls' = [calls EXCEPT ![t] =
                   IF ConcConv \in DOMAIN REGISTRATIONS
                   THEN [@ EXCEPT !.pc = "touch_check", !.live = TRUE]
                   ELSE Finish(@, Error("conversation_not_found"))]
    /\ UNCHANGED <<REGISTRATIONS, USED_USER_IDS, users, now, request,
                   response, effects, issued, base, aux>>

\* update_registration_activity: if conversation_id in REGISTRATIONS
Call_touch_check(t) ==
    /\ calls[t].pc = "touch_check"
    /\ calls' = [calls EXCEPT ![t].pc =
                   IF ConcConv \in DOMAIN REGISTRATIONS
                   THEN "touch_write" ELSE "read"]
    /\ UNCHANGED <<REGISTRATIONS, USED_USER_IDS, users, now, request,
                   response, effects, issued, base, aux>>

\* REGISTRATIONS[conversation_id]["last_activity"] = time.time(); a KeyError
\* ends in the handler's  except Exception
Call_touch_write(t) ==
    /\ calls[t].pc = "touch_write"
    /\ IF ConcConv \in DOMAIN REGISTRATIONS
       THEN /\ REGISTRATIONS' =
                   [REGISTRATIONS EXCEPT ![ConcConv].last_activity = now]
            /\ calls' = [calls EXCEPT ![t].pc = "read"]
       ELSE /\ calls' = [calls EXCEPT ![t] = Finish(@, Error("exception"))]
            /\ UNCHANGED REGISTRATIONS
    /\ UNCHANGED <<USED_USER_IDS, users, now, request, response, effects,
                   issued, base, aux>>

\* stage = state.get("stage", "started"); collected = state.setdefault(...)
Call_read(t) ==
    /\ calls[t].pc = "read"
    /\ LET next == Dispatch(StateOf(t).stage, calls[t].msg)
           call == [calls[t] EXCEPT !.clive = TRUE]
       IN  calls' = [calls EXCEPT ![t] =
                       IF next = "name_invalid"
                       THEN Finish(call, [type |-> "ask_user_data",
                                          conversation_id |-> ConcConv,
                                          field |-> "name"])
                       ELSE IF next = "info"
                       THEN Finish(call, [type |-> "info"])
                       ELSE IF next = "unknown_stage"
                       THEN Finish(call, Error("unknown_stage"))
                       ELSE [call EXCEPT !.pc = next]]
    /\ UNCHANGED <<REGISTRATIONS, USED_USER_IDS, users, now, request,
                   response, effects, issued, base, aux>>

\* state["stage"] = "awaiting_name"
Call_started_write(t) ==
    /\ calls[t].pc = "started_write"
    /\ LET w == WriteState(t, "stage", "awaiting_name")
           next == Dispatch("awaiting_name", calls[t].msg)
       IN  /\ REGISTRATIONS' = w.regs
           /\ calls' = [calls EXCEPT ![t] =
                          IF next = "name_invalid"
                          THEN Finish(w.call, [type |-> "ask_user_data",
                                               conversation_id |-> ConcConv,
                                               field |-> "name"])
                          ELSE [w.call EXCEPT !.pc = next]]
    /\ UNCHANGED <<USED_USER_IDS, users, now, request, response, effects,
                   issued, base, aux>>

\* collected["name"] = name
Call_name_store(t) ==
    /\ calls[t].pc = "name_store"
    /\ LET w == WriteCollected(t, "name", validate_name(calls[t].msg))
       IN  /\ REGISTRATIONS' = w.regs
           /\ calls' = [calls EXCEPT ![t] = [w.call EXCEPT !.pc = "name_stage"]]
    /\ UNCHANGED <<USED_USER_IDS, users, now, request, response, effects,
                   issued, base, aux>>

\* state["stage"] = "awaiting_phone"; return ask_user_data
Call_name_stage(t) ==
    /\ calls[t].pc = "name_stage"
    /\ LET w == WriteState(t, "stage", "awaiting_phone")
       IN  /\ REGISTRATIONS' = w.regs
           /\ calls' = [calls EXCEPT ![t] =
                          Finish(w.call, [type |-> "ask_user_data",
                                          conversation_id |-> ConcConv,
                                          field |-> "phone"])]
    /\ UNCHANGED <<USED_USER_IDS, users, now, request, response, effects,
                   issued, base, aux>>

\* collected["phone"] = None or the validated phone
Call_phone_store(t) ==
    /\ calls[t].pc = "phone_store"
    /\ LET phone == IF is_skip_request(calls[t].msg) THEN None
                    ELSE validate_phone(calls[t].msg)
           w == WriteCollected(t, "phone", phone)
       IN  /\ REGISTRATIONS' = w.regs
           /\ calls' = [calls EXCEPT ![t] = [w.call EXCEPT !.pc = "phone_stage"]]
    /\ UNCHANGED <<USED_USER_IDS, users, now, request, response, effects,
                   issued, base, aux>>

\* state["stage"] = "confirm"
Call_phone_stage(t) ==
    /\ calls[t].pc = "phone_stage"
    /\ LET w == WriteState(t, "stage", "confirm")
       IN  /\ REGISTRATIONS' = w.regs
           /\ calls' = [calls EXCEPT ![t] = [w.call EXCEPT !.pc = "phone_summary"]]
    /\ UNCHANGED <<USED_USER_IDS, users, now, request, response, effects,
                   issued, base, aux>>

\* name = collected.get('name', ...); phone = collected.get('phone'); return
Call_phone_summary(t) ==
    /\ calls[t].pc = "phone_summary"
    /\ calls' = [calls EXCEPT ![t] =
                   Finish(@, [type |-> "confirm_data",
                              conversation_id |-> ConcConv,
                              summary |-> Summary(CollectedOf(t))])]
    /\ UNCHANGED <<REGISTRATIONS, USED_USER_IDS, users, now, request,
                   response, effects, issued, base, aux>>

\* user_id = generate_user_id()
Call_gen(t) ==
    /\ calls[t].pc = "gen"
    /\ \E draws \in DrawSeqs :
         \E gen \in {generate_user_id(USED_USER_IDS, draws, now)} :
           /\ USED_USER_IDS' = gen.used
           /\ issued' = issued \cup {gen.id}
           /\ calls' = [calls EXCEPT ![t].pc = "profile",
                                     ![t].user_id = gen.id]
    /\ UNCHANGED <<REGISTRATIONS, users, now, request, response, effects, base, aux>>

\* profile = create_profile_from_collected_data(collected)
Call_profile(t) ==
    /\ calls[t].pc = "profile"
    /\ calls' = [calls EXCEPT
                   ![t].pc = "save",
                   ![t].profile = create_profile_from_collected_data(CollectedOf(t))]
    /\ UNCHANGED <<REGISTRATIONS, USED_USER_IDS, users, now, request,
                   response, effects, issued, base, aux>>

\* save_result = _db_save_user_profile(...)
Call_save(t) ==
    /\ calls[t].pc = "save"
    /\ \E db_ok \in BOOLEAN :
         \E r \in {save_user_profile(users, calls[t].user_id,
                                     calls[t].profile, db_ok)} :
           /\ users' = r.table
           /\ calls' = [calls EXCEPT ![t] =
                          IF r.saved THEN [@ EXCEPT !.pc = "delete"]
                          ELSE Finish(@, Error("save_failed"))]
    /\ UNCHANGED <<REGISTRATIONS, USED_USER_IDS, now, request, response,
                   effects, issued, base, aux>>

\* delete_registration(conv_id); return registration_complete.  A call that
\* still holds the removed session dict keeps it.
Call_delete(t) ==
    /\ calls[t].pc = "delete"
    /\ REGISTRATIONS' = delete_registration(REGISTRATIONS, ConcConv)
    /\ calls' = [calls EXCEPT
                   ![t] = Finish(@, [type |-> "registration_complete",
                                     conversation_id |-> ConcConv,
                                     user_id |-> calls[t].user_id,
                                     profile |-> calls[t].profile]),
                   ![Other(t)] =
                       IF @.live /\ ConcConv \in DOMAIN REGISTRATIONS
                       THEN [@ EXCEPT !.live = FALSE,
                                      !.st = REGISTRATIONS[ConcConv]]
                       ELSE @]
    /\ UNCHANGED <<USED_USER_IDS, users, now, request, response, effects,
                   issued, base, aux>>

\* state["stage"] = "awaiting_name"
Call_reject_stage(t) ==
    /\ calls[t].pc = "reject_stage"
    /\ LET w == WriteState(t, "stage", "awaiting_name")
       IN  /\ REGISTRATIONS' = w.regs
           /\ calls' = [calls EXCEPT ![t] = [w.call EXCEPT !.pc = "reject_collected"]]
    /\ UNCHANGED <<USED_USER_IDS, users, now, request, response, effects,
                   issued, base, aux>>

\* state["collected"] = {}; return ask_user_data.  A call that read the
\* replaced collected dict from the same session dict keeps it.
Call_reject_collected(t) ==
    /\ calls[t].pc = "reject_collected"
    /\ LET w == WriteState(t, "collected", EmptyDict)
       IN  /\ REGISTRATIONS' = w.regs
           /\ calls' = [calls EXCEPT
                          ![t] = Finish(w.call, [type |-> "ask_user_data",
                                                 conversation_id |-> ConcConv,
                                                 field |-> "name"]),
                          ![Other(t)] =
                              IF calls[t].live /\ @.live /\ @.clive
                              THEN [@ EXCEPT !.clive = FALSE,
                                             !.col = REGISTRATIONS[ConcConv].collected]
                              ELSE @]
    /\ UNCHANGED <<USED_USER_IDS, users, now, request, response, effects,
                   issued, base, aux>>

NextConc ==
    \/ SequentialStep
    \/ \E t \in Threads : Begin(t)
    \/ \E t \in Threads : Call_get(t)
    \/ \E t \in Threads : Call_touch_check(t)
    \/ \E t \in Threads : Call_touch_write(t)
    \/ \E t \in Threads : Call_read(t)
    \/ \E t \in Threads : Call_started_write(t)
    \/ \E t \in Threads : Call_name_store(t)
    \/ \E t \in Threads : Call_name_stage(t)
    \/ \E t \in Threads : Call_phone_store(t)
    \/ \E t \in Threads : Call_phone_stage(t)
    \/ \E t \in Threads : Call_phone_summary(t)
    \/ \E t \in Threads : Call_gen(t)
    \/ \E t \in Threads : Call_profile(t)
    \/ \E t \in Threads : Call_save(t)
    \/ \E t \in Threads : Call_delete(t)
    \/ \E t \in Threads : Call_reject_stage(t)
    \/ \E t \in Threads : Call_reject_collected(t)

SpecConc == Init /\ [][NextConc]_vars

\* ------------------------------------------------------------------------
\* A gina_get_user_profile call whose sweep overlaps registration requests.
\* cleanup_stale_registrations takes no lock (gina_utils.py 216-233): the
\* comprehension walks the dict one entry at a time, then each stale id is
\* popped.  Registration requests are handled between its steps.  The order
\* in which the entries come is the dict's insertion order, which the store
\* of the model does not keep: any order is taken.
\* ------------------------------------------------------------------------
SweepIdle == sweep.pc = "idle"

\* the handler's  except Exception
SweepRaises ==
    /\ sweep' = IdleSweep
    /\ request' = [tool |-> "gina_get_user_profile", args |-> sweep.args]
    /\ response' = Error("exception")
    /\ effects' = NoEffects

\* now = time.time(); the comprehension takes an iterator of the dict
Sweep_begin ==
    /\ SweepIdle
    /\ \E args \in { ProfileArgs("dict", 0) }, db_ok \in BOOLEAN :
           sweep' = [IdleSweep EXCEPT !.pc = "scan", !.args = args,
                                      !.db_ok = db_ok, !.now_ = now,
                                      !.size = Cardinality(DOMAIN REGISTRATIONS)]
    /\ UNCHANGED <<REGISTRATIONS, USED_USER_IDS, users, now, request,
                   response, effects, issued, calls, base, log, copies,
                   availability, applied, result>>

\* one round of  for conv_id, state in REGISTRATIONS.items() if ... : the
\* iterator raises RuntimeError when the dict has changed size
Sweep_scan ==
    /\ sweep.pc = "scan"
    /\ IF Cardinality(DOMAIN REGISTRATIONS) # sweep.size
       THEN SweepRaises
       ELSE /\ IF (DOMAIN REGISTRATIONS) \ sweep.visited = {}
               THEN sweep' = [sweep EXCEPT !.pc = "pop",
                                           !.count = Len(sweep.stale_ids)]
               ELSE \E c \in (DOMAIN REGISTRATIONS) \ sweep.visited :
                      sweep' = [sweep EXCEPT
                                  !.visited = @ \cup {c},
                                  !.stale_ids =
                                      IF IsStale(REGISTRATIONS[c], sweep.now_)
                                      THEN Append(@, c) ELSE @]
            /\ UNCHANGED <<request, response, effects>>
    /\ UNCHANGED <<REGISTRATIONS, USED_USER_IDS, users, now, issued, calls,
                   base, log, copies, availability,
                   applied, result>>

\* REGISTRATIONS.pop(conv_id) : KeyError when the key has gone
Sweep_pop ==
    /\ sweep.pc = "pop"
    /\ sweep.stale_ids # <<>>
    /\ IF Head(sweep.stale_ids) \in DOMAIN REGISTRATIONS
       THEN /\ REGISTRATIONS' = Pop(REGISTRATIONS, Head(sweep.stale_ids))
            /\ sweep' = [sweep EXCEPT !.stale_ids = Tail(@)]
            /\ UNCHANGED <<request, response, effects>>
       ELSE /\ SweepRaises
            /\ UNCHANGED REGISTRATIONS
    /\ UNCHANGED <<USED_USER_IDS, users, now, issued, calls, base, log,
                   copies, availability, applied, result>>

\* return len(stale_ids); then the argument checks and the lookup
Sweep_finish ==
    /\ sweep.pc = "pop"
    /\ sweep.stale_ids = <<>>
    /\ \E looked \in {profile_lookup(users, sweep.args, sweep.db_ok)} :
           /\ response' = looked.response
           /\ effects' = [NoEffects EXCEPT !.swept = sweep.count,
                                           !.lookup = looked.lookup]
    /\ request' = [tool |-> "gina_get_user_profile", args |-> sweep.args]
    /\ sweep' = IdleSweep
    /\ UNCHANGED <<REGISTRATIONS, USED_USER_IDS, users, now, issued, calls,
                   base, log, copies, availability,
                   applied, result>>

NextSweep ==
    \/ StartRegistration(OneConv)
    \/ ContinueRegistration(OneConv,
           { <<" ","J","o"," ">>, <<"Y","e","s","!">> })
    \/ SweepIdle /\ Tick({REGISTRATION_TIMEOUT_SECONDS + 1}, MaxTime)
    \/ Sweep_begin
    \/ Sweep_scan
    \/ Sweep_pop
    \/ Sweep_finish

SpecSweep == Init /\ [][NextSweep]_vars

\* ------------------------------------------------------------------------
\* check_availability_status applied to a copy list
\* ------------------------------------------------------------------------
InitAvailability ==
    /\ InitRegistration
    /\ sweep = IdleSweep
    /\ log = <<>>
    /\ copies \in CopyLists
    /\ availability = NoAvailability
    /\ applied = [fn |-> "none"]
    /\ result = [returned |-> FALSE]

CheckAvailabilityStatus ==
    /\ availability = NoAvailability
    /\ availability' = check_availability_status(copies)
    /\ UNCHANGED <<REGISTRATIONS, USED_USER_IDS, users, now, request,
                   response, effects, issued, calls, base, sweep, log, copies,
                   applied, result>>

SpecAvailability == InitAvailability /\ [][CheckAvailabilityStatus]_vars

\* ------------------------------------------------------------------------
\* The library functions and the tools of Alec, applied to one input
\* ------------------------------------------------------------------------
\* what applying a function leaves alone
engine == <<REGISTRATIONS, USED_USER_IDS, users, now, request, response,
            effects, issued, calls, base, sweep, log, copies, availability>>

\* the inputs the functions and the tools are applied to
LibraryInputs ==
    LET \* LOAN_RULES with one more rule, of REFERENCE's priority and a
        \* longer term
        TiedRules ==
            [key \in DOMAIN LOAN_RULES \cup {<<"A","T","L","A","S">>} |->
                IF key \in DOMAIN LOAN_RULES THEN LOAN_RULES[key]
                ELSE [days |-> 30, priority |-> 1,
                      description |-> "Atlases"]]
        DigitsOf(n) ==
            [i \in 1..n |->
                <<"0","1","2","3","4","5","6","7","8","9">>[(i % 10) + 1]]
        \* normalize_text: cased, accented and blank characters, and None
        Texts == UNION { [1..k -> {"A", "n", " ", "A_acute", "u_diaeresis"}] :
                           k \in 0..MaxText }
        \* calculate_loan_term: rule keys in several spellings and a tag
        \* that names no rule, read against the table shipped and against
        \* the table with a tie
        Tags == { RuleKey.novel_extended, <<"n","o","v","e","l"," ","e","x","t","e","n","d","e","d">>,
                  <<"R","e","f","e","r","e","n","c","e">>, RuleKey.new,
                  RuleKey.standard, <<"C","l","a","s","s","i","c">>,
                  <<"A","T","L","A","S">> }
        TagLists == UNION { [1..n -> Tags] : n \in 0..MaxTags }
        \* validate_phone: n digits, bare or among other characters
        Interleave(s, sep) ==
            [i \in 1..(2 * Len(s)) |->
                IF i % 2 = 1 THEN sep ELSE s[i \div 2]]
        PhoneTexts ==
            UNION { { DigitsOf(n),
                      Interleave(DigitsOf(n), "-"),
                      Interleave(DigitsOf(n), " "),
                      <<"+", "(">> \o DigitsOf(n) \o <<")", " ">>,
                      <<"t","e","l",":"," ">> \o DigitsOf(n)
                          \o <<" ","e","x","t">> } : n \in 0..MaxDigits }
        \* search: words found in titles, keys, authors, tags, nowhere
        Queries ==
            { None, <<>>, <<" ", " ">>,
              <<"E","t","e","r","n","a","u","t","a">>,
              <<"c","l","a","s","s","i","c">>,
              <<"G","a","r","c","i_acute","a"," ","M","a_acute","r","q","u","e","z">>,
              <<"n","o","v","e","l">>, <<"z","z","z">>, <<"9","8">>,
              <<"t","h","e">>, <<"e","l","_">>,
              <<"S","T","A","N","D","A","R","D">> }
        CriteriaValues == { None, Criteria.title, Criteria.author,
                            Criteria.tag, <<"y","e","a","r">> }
        \* check_availability: titles matching no, one, two, seven and all
        \* books; authors of one and of two of them
        Titles ==
            { None, <<>>, <<" ", " ", " ">>, Number,
              <<"E","t","e","r","n","a","u","t","a">>,
              GEPEBIA_INVENTORY[7].data.title,
              <<"t","h","e">>,
              <<"T","h","u","r","s","d","a","y">>,
              <<"F","o","g">>, <<"A","D","A_acute","N">>,
              <<"z","z","z">> }
        Authors ==
            { None, <<>>, Number,
              <<"S","a","b","a","t","o">>,
              <<"L","O_acute","P","E","Z">>,
              <<"M","a","r","e","c","h","a","l">> }
        Todays == { [year |-> 2024, month |-> 12, day |-> 9],
                    [year |-> 2024, month |-> 2, day |-> 10] }
        \* the arguments of a tool: a dict, a JSON string holding one, a
        \* string that is no JSON, and a value that is no dict
        Kinds == {"dict", "json"}
        Malformed == {"invalid_json", "not_dict"}
        \* generate_user_id: every used-id set and sequence of draws, read
        \* at three values of time.time()
        Clocks == { 1700000000, 1700000001, 1799999999 }
    IN  { [fn |-> "normalize_text", text |-> t] : t \in Texts \cup {None} }
        \cup { [fn |-> "calculate_loan_term", rules |-> r, tags |-> t] :
                 r \in {LOAN_RULES, TiedRules}, t \in TagLists }
        \cup { [fn |-> "validate_phone", text |-> t] :
                 t \in PhoneTexts \cup {None} }
        \cup { [fn |-> "search_in_inventory", query |-> query,
                criteria |-> c] :
                 query \in Queries, c \in CriteriaValues }
        \cup { [fn |-> "alec_check_availability", today |-> today,
                args |-> [kind |-> kind, title |-> t, author |-> a]] :
                 kind \in Kinds, t \in Titles, a \in Authors,
                 today \in Todays }
        \cup { [fn |-> "alec_check_availability", today |-> today,
                args |-> [kind |-> kind, title |-> None, author |-> None]] :
                 kind \in Malformed, today \in Todays }
        \cup { [fn |-> "alec_search_books",
                args |-> [kind |-> kind, query |-> query, criteria |-> c]] :
                 kind \in Kinds, query \in Queries \cup {Number},
                 c \in CriteriaValues }
        \cup { [fn |-> "alec_search_books",
                args |-> [kind |-> kind, query |-> None, criteria |-> None]] :
                 kind \in Malformed }
        \cup { [fn |-> "generate_user_id", used |-> used, draws |-> draws,
                now_ |-> t] :
                 used \in SUBSET UserIds, draws \in DrawSeqs, t \in Clocks }

\* a function or a tool is about to be applied to one of the inputs
InitLibrary ==
    /\ InitRegistration
    /\ sweep = IdleSweep
    /\ log = <<>>
    /\ copies = <<>>
    /\ availability = NoAvailability
    /\ applied \in LibraryInputs
    /\ result = [returned |-> FALSE]

ApplyNormalizeText ==
    /\ applied.fn = "normalize_text"
    /\ ~result.returned
    /\ result' = [returned |-> TRUE, value |-> normalize_text(applied.text)]
    /\ UNCHANGED <<engine, applied>>

ApplyCalculateLoanTerm ==
    /\ applied.fn = "calculate_loan_term"
    /\ ~result.returned
    /\ result' = [returned |-> TRUE,
                  value |-> calculate_loan_term(applied.rules, applied.tags)]
    /\ UNCHANGED <<engine, applied>>

ApplyValidatePhone ==
    /\ applied.fn = "validate_phone"
    /\ ~result.returned
    /\ result' = [returned |-> TRUE, value |-> validate_phone(applied.text)]
    /\ UNCHANGED <<engine, applied>>

ApplySearchInInventory ==
    /\ applied.fn = "search_in_inventory"
    /\ ~result.returned
    /\ result' = [returned |-> TRUE,
                  value |-> search_in_inventory(applied.query,
                                GEPEBIA_INVENTORY, applied.criteria)]
    /\ UNCHANGED <<engine, applied>>

CheckAvailability ==
    /\ applied.fn = "alec_check_availability"
    /\ ~result.returned
    /\ result' = [returned |-> TRUE,
                  value |-> alec_check_availability(applied.args,
                                                    applied.today)]
    /\ UNCHANGED <<engine, applied>>

SearchBooks ==
    /\ applied.fn = "alec_search_books"
    /\ ~result.returned
    /\ result' = [returned |-> TRUE, value |-> alec_search_books(applied.args)]
    /\ UNCHANGED <<engine, applied>>

ApplyGenerateUserId ==
    /\ applied.fn = "generate_user_id"
    /\ ~result.returned
    /\ result' = [returned |-> TRUE,
                  value |-> generate_user_id(applied.used, applied.draws,
                                             applied.now_)]
    /\ UNCHANGED <<engine, applied>>

NextLibrary ==
    \/ ApplyGenerateUserId
    \/ ApplyNormalizeText
    \/ ApplyCalculateLoanTerm
    \/ ApplyValidatePhone
    \/ ApplySearchInInventory
    \/ CheckAvailability
    \/ SearchBooks

SpecLibrary == InitLibrary /\ [][NextLibrary]_vars

\* ------------------------------------------------------------------------
\* Properties
\* ------------------------------------------------------------------------
IsRegistrationCall(req) == req.tool = "gina_handle_registration_step"

IsContinue(req) ==
    IsRegistrationCall(req) /\ req.args.action = "continue_registration"

\* the message as the handler passes it on:  user_msg or ""
MsgOrEmpty(req) ==
    IF Truthy(req.args.user_message) THEN req.args.user_message ELSE <<>>

Stages == {"started", "awaiting_name", "awaiting_phone", "confirm", "done"}

StageRank(stage) ==
    CASE stage = "started" -> 0
      [] stage = "awaiting_name" -> 1
      [] stage = "awaiting_phone" -> 2
      [] stage = "confirm" -> 3
      [] stage = "done" -> 4

\* C1: a continue_registration call never moves a session's stage backwards
\* in the order started, awaiting_name, awaiting_phone, confirm, done, except
\* from confirm to awaiting_name on a non-affirmative answer, and that move
\* leaves collected empty.
C1_StageOnlyAdvances ==
    [][ IsContinue(request') =>
          \A c \in (DOMAIN REGISTRATIONS) \cap (DOMAIN REGISTRATIONS') :
              \/ StageRank(REGISTRATIONS'[c].stage)
                     >= StageRank(REGISTRATIONS[c].stage)
              \/ /\ REGISTRATIONS[c].stage = "confirm"
                 /\ REGISTRATIONS'[c].stage = "awaiting_name"
                 /\ c = request'.args.conversation_id
                 /\ ~is_affirmative(MsgOrEmpty(request'))
                 /\ REGISTRATIONS'[c].collected = EmptyDict ]_vars

\* a session that has just been sent back from confirm to awaiting_name
C1_Witness ==
    /\ IsContinue(request)
    /\ effects.stage = "confirm"
    /\ request.args.conversation_id \in DOMAIN REGISTRATIONS
    /\ REGISTRATIONS[request.args.conversation_id].stage = "awaiting_name"

\* C2: generate_user_id never returns a value it has returned before, the
\* time-based fallback included.
C2_NeverReissued ==
    [][ IsRegistrationCall(request') =>
          \A i \in DOMAIN effects'.generated :
              effects'.generated[i] \notin issued ]_vars

\* C3: a continue_registration naming a session that does not exist, or one
\* without activity for more than 1800 seconds, is answered with
\* conversation_not_found.
C3_ExpiredNotFound ==
    [][ ( /\ IsContinue(request')
          /\ request'.args.conversation_id # ""
          /\ \/ request'.args.conversation_id \notin DOMAIN REGISTRATIONS
             \/ now - REGISTRATIONS[request'.args.conversation_id].last_activity
                    > 1800 )
        => ( /\ response'.type = "error"
             /\ response'.reason = "conversation_not_found" ) ]_vars

\* C4: the sweep at the head of gina_get_user_profile removes every session
\* idle for 1801 seconds or more, keeps every session idle for 1800 seconds
\* or less exactly as it was, and returns the number it removed.
C4_SweepExact ==
    [][ request'.tool = "gina_get_user_profile" =>
          /\ \A c \in DOMAIN REGISTRATIONS :
                 IF now - REGISTRATIONS[c].last_activity >= 1801
                 THEN c \notin DOMAIN REGISTRATIONS'
                 ELSE /\ c \in DOMAIN REGISTRATIONS'
                      /\ REGISTRATIONS'[c] = REGISTRATIONS[c]
          /\ (DOMAIN REGISTRATIONS') \subseteq (DOMAIN REGISTRATIONS)
          /\ effects'.swept = Cardinality((DOMAIN REGISTRATIONS)
                                          \ (DOMAIN REGISTRATIONS')) ]_vars

\* a sweep has removed one session and kept one that is exactly 1800 s idle
C4_Witness ==
    /\ request.tool = "gina_get_user_profile"
    /\ effects.swept = 1
    /\ \E c \in DOMAIN REGISTRATIONS :
           now - REGISTRATIONS[c].last_activity = 1800

\* C5: an affirmative answer at stage confirm whose save fails is answered
\* with save_failed, and the session stays in the store at stage confirm
\* with its collected data as they were.
C5_SaveFailedRetains ==
    [][ ( /\ IsContinue(request')
          /\ effects'.stage = "confirm"
          /\ is_affirmative(MsgOrEmpty(request'))
          /\ \E i \in DOMAIN effects'.saves : ~effects'.saves[i].saved )
        => LET c == request'.args.conversation_id
           IN  /\ response'.type = "error"
               /\ response'.reason = "save_failed"
               /\ c \in DOMAIN REGISTRATIONS'
               /\ REGISTRATIONS'[c].stage = "confirm"
               /\ REGISTRATIONS'[c].collected = REGISTRATIONS[c].collected ]_vars

\* a failed save has left the session waiting for confirmation
C5_Witness ==
    /\ IsContinue(request)
    /\ effects.saves # <<>>
    /\ ~effects.saves[1].saved
    /\ request.args.conversation_id \in DOMAIN REGISTRATIONS
    /\ "phone" \in DOMAIN REGISTRATIONS[request.args.conversation_id].collected

\* C6: an affirmative answer at stage confirm whose save succeeds deletes
\* the session and is answered with registration_complete carrying the
\* conversation id, the user id just generated and a profile whose name and
\* phone are the collected name and phone.
C6_CompleteDeletes ==
    [][ ( /\ IsContinue(request')
          /\ effects'.stage = "confirm"
          /\ is_affirmative(MsgOrEmpty(request'))
          /\ \E i \in DOMAIN effects'.saves : effects'.saves[i].saved )
        => LET c == request'.args.conversation_id
           IN  /\ c \notin DOMAIN REGISTRATIONS'
               /\ response'.type = "registration_complete"
               /\ response'.conversation_id = c
               /\ effects'.generated = << response'.user_id >>
               /\ response'.profile.name = REGISTRATIONS[c].collected["name"]
               /\ response'.profile.phone = REGISTRATIONS[c].collected["phone"]
               /\ response'.user_id \in DOMAIN users'
               /\ users'[response'.user_id].name = response'.profile.name
               /\ users'[response'.user_id].phone = response'.profile.phone ]_vars

\* a registration with a phone number has been completed
C6_Witness ==
    /\ response.type = "registration_complete"
    /\ response.profile.phone = <<"3","8","1","5","5","5">>
    /\ response.conversation_id \notin DOMAIN REGISTRATIONS

\* C7: at stage confirm every message that is not an affirmative word, the
\* empty and the absent message included, empties collected, sets the stage
\* to awaiting_name and is answered with ask_user_data for the name; no user
\* id is generated and no save is attempted.
C7_RejectResets ==
    [][ ( /\ IsContinue(request')
          /\ request'.args.conversation_id \in DOMAIN REGISTRATIONS
          /\ REGISTRATIONS[request'.args.conversation_id].stage = "confirm"
          /\ ~is_affirmative(MsgOrEmpty(request')) )
        => LET c == request'.args.conversation_id
           IN  /\ c \in DOMAIN REGISTRATIONS'
               /\ REGISTRATIONS'[c].collected = EmptyDict
               /\ REGISTRATIONS'[c].stage = "awaiting_name"
               /\ response'.type = "ask_user_data"
               /\ response'.field = "name"
               /\ effects'.generated = <<>>
               /\ effects'.saves = <<>>
               /\ USED_USER_IDS' = USED_USER_IDS
               /\ users' = users
               /\ issued' = issued ]_vars

\* an absent message has been taken as a rejection
C7_Witness ==
    /\ IsContinue(request)
    /\ effects.stage = "confirm"
    /\ request.args.user_message = None
    /\ response.type = "ask_user_data"

\* C9: a registration request answered with missing_action, unknown_action,
\* missing_conversation_id or conversation_not_found leaves the session
\* store and the used-id set as they were.
C9_ErrorsChangeNothing ==
    [][ ( /\ IsRegistrationCall(request')
          /\ response'.type = "error"
          /\ response'.reason \in {"missing_action", "unknown_action",
                                   "missing_conversation_id",
                                   "conversation_not_found"} )
        => ( /\ REGISTRATIONS' = REGISTRATIONS
             /\ USED_USER_IDS' = USED_USER_IDS ) ]_vars

\* a request for a missing conversation arrives while ids are in use
C9_Witness ==
    /\ response.type = "error"
    /\ response.reason = "conversation_not_found"
    /\ USED_USER_IDS # {}

SerialRun(first, second) ==
    \E d1 \in DrawSeqs, d2 \in DrawSeqs, ok1 \in BOOLEAN, ok2 \in BOOLEAN :
        LET o1 == continue_registration(base.regs, base.used, base.table, now,
                                        ConcConv, calls[first].msg, d1, ok1)
            o2 == continue_registration(o1.regs, o1.used, o1.table, now,
                                        ConcConv, calls[second].msg, d2, ok2)
        IN  /\ o1.response = calls[first].response
            /\ o2.response = calls[second].response
            /\ o2.regs = REGISTRATIONS

C10_Serializable ==
    (\A t \in Threads : calls[t].pc = "done")
        => (SerialRun(1, 2) \/ SerialRun(2, 1))

\* C11: a sweep that overlaps the creation, the touching or the deletion of a
\* session ends without an error, and each session it removes is in the
\* store and stale at the moment it is removed.
C11_SweepNoRace ==
    [][ /\ (sweep.pc # "idle" /\ sweep'.pc = "idle")
            => ~(response'.type = "error" /\ response'.reason = "exception")
        /\ (sweep.pc = "pop" /\ sweep.stale_ids # <<>>
                /\ sweep'.stale_ids # sweep.stale_ids)
            => /\ Head(sweep.stale_ids) \in DOMAIN REGISTRATIONS
               /\ IsStale(REGISTRATIONS[Head(sweep.stale_ids)], now) ]_vars

IsStart(req) ==
    /\ IsRegistrationCall(req)
    /\ req.args.kind = "dict"
    /\ req.args.action = "start_registration"

\* C12: start_registration returns a conversation id that no live session
\* has, and adds the new session without replacing or changing a session
\* that is already in the store.
C12_StartAddsNew ==
    [][ IsStart(request') =>
          /\ response'.type = "registration_started"
          /\ response'.conversation_id \notin DOMAIN REGISTRATIONS
          /\ \A c \in DOMAIN REGISTRATIONS :
                 /\ c \in DOMAIN REGISTRATIONS'
                 /\ REGISTRATIONS'[c] = REGISTRATIONS[c] ]_vars

\* C13: a continue_registration call for one conversation id, whatever its
\* outcome, leaves the session stored under every other conversation id as
\* it was, and adds no session.
C13_OthersUnchanged ==
    [][ IsContinue(request') =>
          /\ \A b \in (DOMAIN REGISTRATIONS) \ {request'.args.conversation_id} :
                 /\ b \in DOMAIN REGISTRATIONS'
                 /\ REGISTRATIONS'[b] = REGISTRATIONS[b]
          /\ (DOMAIN REGISTRATIONS') \subseteq (DOMAIN REGISTRATIONS) ]_vars

\* one registration has been completed while another waits for its phone
C13_Witness ==
    /\ IsContinue(request)
    /\ response.type = "registration_complete"
    /\ \E b \in DOMAIN REGISTRATIONS :
           /\ b # request.args.conversation_id
           /\ REGISTRATIONS[b].stage = "awaiting_phone"

\* C14: at stage awaiting_name a message the name validator accepts stores
\* the validated name, sets the stage to awaiting_phone and is answered with
\* ask_user_data for the phone; any other message, the empty and the absent
\* one included, is answered with ask_user_data for the name and leaves stage
\* and collected as they were.
C14_NameStep ==
    [][ ( /\ IsContinue(request')
          /\ request'.args.conversation_id \in DOMAIN REGISTRATIONS
          /\ REGISTRATIONS[request'.args.conversation_id].stage = "awaiting_name" )
        => LET c == request'.args.conversation_id
               name == validate_name(MsgOrEmpty(request'))
           IN  /\ c \in DOMAIN REGISTRATIONS'
               /\ response'.type = "ask_user_data"
               /\ IF Truthy(name)
                  THEN /\ REGISTRATIONS'[c].collected =
                              Put(REGISTRATIONS[c].collected, "name", name)
                       /\ REGISTRATIONS'[c].stage = "awaiting_phone"
                       /\ response'.field = "phone"
                  ELSE /\ REGISTRATIONS'[c].collected = REGISTRATIONS[c].collected
                       /\ REGISTRATIONS'[c].stage = "awaiting_name"
                       /\ response'.field = "name" ]_vars

\* a name with an accented letter has been accepted at stage awaiting_name
C14_Witness ==
    /\ IsContinue(request)
    /\ effects.stage = "awaiting_name"
    /\ response.type = "ask_user_data"
    /\ response.field = "phone"
    /\ REGISTRATIONS["c1"].collected["name"] = <<"J","o","s","e_acute">>

\* the message contains one of the skip phrases, in any letter case
HasSkipPhrase(msg) == \E w \in skip_words : Contains(lower(msg), w)

\* C15: at stage awaiting_phone every message sets the stage to confirm and
\* is answered with confirm_data; the phone stored is the digits of the
\* message when it contains no skip phrase and has 6 to 15 digits, and null
\* otherwise.
C15_PhoneStep ==
    [][ ( /\ IsContinue(request')
          /\ request'.args.conversation_id \in DOMAIN REGISTRATIONS
          /\ REGISTRATIONS[request'.args.conversation_id].stage = "awaiting_phone" )
        => LET c == request'.args.conversation_id
               msg == MsgOrEmpty(request')
               digits == SelectSeq(msg, isdigit)
           IN  /\ c \in DOMAIN REGISTRATIONS'
               /\ REGISTRATIONS'[c].stage = "confirm"
               /\ response'.type = "confirm_data"
               /\ "phone" \in DOMAIN REGISTRATIONS'[c].collected
               /\ REGISTRATIONS'[c].collected["phone"] =
                      IF ~HasSkipPhrase(msg) /\ Len(digits) >= 6 /\ Len(digits) <= 15
                      THEN digits ELSE None ]_vars

\* a message with a skip phrase and six digits has left the phone null
C15_Witness ==
    /\ IsContinue(request)
    /\ effects.stage = "awaiting_phone"
    /\ request.args.user_message = <<"n","o"," ","1","2","3","4","5","6">>
    /\ REGISTRATIONS["c1"].stage = "confirm"
    /\ REGISTRATIONS["c1"].collected["phone"] = None

\* the dialogue followed began with start_registration, went on with a valid
\* name, any phone message and an affirmative word, all for the conversation
\* that was started, and sqlite accepted the save
EndToEndRun ==
    /\ Len(log) >= 4
    /\ IsStart(log[1].request)
    /\ log[1].response.type = "registration_started"
    /\ \A k \in 2..4 :
           /\ IsContinue(log[k].request)
           /\ log[k].request.args.conversation_id
                  = log[1].response.conversation_id
    /\ Truthy(validate_name(MsgOrEmpty(log[2].request)))
    /\ is_affirmative(MsgOrEmpty(log[4].request))
    /\ log[4].db_ok

\* C16: start_registration, a valid name, any phone message and an
\* affirmative word with a succeeding save are answered, in this order, with
\* registration_started, ask_user_data for the phone, confirm_data and
\* registration_complete; the phone message "skip" makes the summary show the
\* phone as skipped, and the completed profile carries the name, the default
\* empty preferences and a user id of the generator's range.
C16_EndToEnd ==
    EndToEndRun =>
        /\ log[2].response.type = "ask_user_data"
        /\ log[2].response.field = "phone"
        /\ log[3].response.type = "confirm_data"
        /\ (log[3].request.args.user_message = <<"s","k","i","p">>
               => log[3].response.summary.phone = Skipped)
        /\ log[4].response.type = "registration_complete"
        /\ log[4].response.profile.name = validate_name(MsgOrEmpty(log[2].request))
        /\ log[4].response.profile.preferences = create_empty_profile_preferences
        /\ log[4].response.user_id \in 0..(NumIds - 1)

\* a registration whose phone was skipped has been completed in four calls
C16_Witness ==
    /\ EndToEndRun
    /\ log[3].request.args.user_message = <<"s","k","i","p">>
    /\ log[4].response.type = "registration_complete"
    /\ log[4].response.profile.phone = None

IsGetProfile(req) == req.tool = "gina_get_user_profile"

\* C17: a session leaves the store only when its own registration is
\* completed or when a get_profile request finds it idle for more than the
\* timeout; every get_profile request, one answered invalid_json or
\* missing_user_id included, removes all such sessions, and a registration
\* request removes no session but the one it completes.
C17_RemovedOnlyByCompletionOrSweep ==
    [][ /\ \A c \in (DOMAIN REGISTRATIONS) \ (DOMAIN REGISTRATIONS') :
               \/ /\ IsContinue(request')
                  /\ c = request'.args.conversation_id
                  /\ response'.type = "registration_complete"
               \/ /\ IsGetProfile(request')
                  /\ now - REGISTRATIONS[c].last_activity
                         > REGISTRATION_TIMEOUT_SECONDS
        /\ IsGetProfile(request') =>
               \A c \in DOMAIN REGISTRATIONS :
                   now - REGISTRATIONS[c].last_activity
                       > REGISTRATION_TIMEOUT_SECONDS
                   => c \notin DOMAIN REGISTRATIONS' ]_vars

\* a get_profile request that does not parse has swept a stale session and
\* left a fresh one
C17_Witness ==
    /\ IsGetProfile(request)
    /\ request.args.kind = "invalid_json"
    /\ response.type = "error"
    /\ effects.swept = 1
    /\ REGISTRATIONS # EmptyDict

\* C18: a get_profile request whose lookup fails in the persistence gateway
\* is answered with an error, neither profile_found nor profile_not_found; a
\* confirmation whose save fails is answered with save_failed after a single
\* attempt.
C18_GatewayFailureIsError ==
    [][ /\ (IsGetProfile(request') /\ effects'.lookup = "failed")
            => response'.type = "error"
        /\ (IsContinue(request')
                /\ \E i \in DOMAIN effects'.saves : ~effects'.saves[i].saved)
            => /\ response'.type = "error"
               /\ response'.reason = "save_failed"
               /\ Len(effects'.saves) = 1 ]_vars

NumberOf(status) ==
    Cardinality({i \in DOMAIN copies : StatusOf(copies[i]) = status})

\* C19: for every copy list the result is either available with a positive
\* quantity, or not available with quantity 0 and one of the three reasons;
\* it is available exactly when some copy has status Available, and the
\* quantity is the number of copies with status Available.
C19_AvailabilityShape ==
    availability # NoAvailability =>
        /\ \/ /\ availability.available = TRUE
              /\ availability.quantity > 0
              /\ "reason" \notin DOMAIN availability
           \/ /\ availability.available = FALSE
              /\ availability.quantity = 0
              /\ "reason" \in DOMAIN availability
              /\ availability.reason
                     \in {"all_borrowed", "under_repair", "not_available"}
        /\ availability.available
               = (\E i \in DOMAIN copies : StatusOf(copies[i]) = "Available")
        /\ availability.quantity = NumberOf("Available")

\* two of three copies are available, the third is out on loan
C19_Witness ==
    /\ Len(copies) = 3
    /\ NumberOf("Borrowed") = 1
    /\ availability # NoAvailability
    /\ availability.available
    /\ availability.quantity = 2

IsApplied(fn) == applied.fn = fn /\ result.returned

\* the rule keys the tags of a list name in a table, with STANDARD
Candidates(rules, tags) ==
    {RuleKey.standard}
        \cup ({ tag_norm(tags[i]) : i \in DOMAIN tags } \cap DOMAIN rules)

\* C21: the loan term is that of the rule with the lowest priority number
\* among STANDARD and the rules the tags name, the one with most days among
\* rules of that priority, and its days are positive
C21_LoanTermIsBestRule ==
    IsApplied("calculate_loan_term") =>
        LET rules == applied.rules
            term == result.value
            candidates == Candidates(rules, applied.tags)
        IN  /\ term.applied_rule \in candidates
            /\ term.days = rules[term.applied_rule].days
            /\ term.priority = rules[term.applied_rule].priority
            /\ \A k \in candidates :
                  \/ term.priority < rules[k].priority
                  \/ /\ term.priority = rules[k].priority
                     /\ term.days >= rules[k].days
            /\ term.days > 0

\* a tag of REFERENCE's priority and a longer term took the winner's place
C21_Witness ==
    /\ IsApplied("calculate_loan_term")
    /\ applied.rules # LOAN_RULES
    /\ applied.tags = <<<<"R","e","f","e","r","e","n","c","e">>,
                        <<"A","T","L","A","S">>, RuleKey.new>>
    /\ result.value.applied_rule = <<"A","T","L","A","S">>
    /\ result.value.days = 30

Core(term) == [days |-> term.days, applied_rule |-> term.applied_rule,
               priority |-> term.priority]

Orderings(n) ==
    { p \in [1..n -> 1..n] : \A i, j \in 1..n : p[i] = p[j] => i = j }

\* C22: days, applied rule and priority are those of every permutation of
\* the tag list and of the list without the tags that name no rule; a list
\* whose only rule is NOVEL_EXTENDED gets 28 days
C22_OrderIndependent ==
    IsApplied("calculate_loan_term") =>
        LET rules == applied.rules
            tags == applied.tags
            keyed == SelectSeq(tags,
                         LAMBDA tag : tag_norm(tag) \in DOMAIN rules)
        IN  /\ \A p \in Orderings(Len(tags)) :
                  Core(calculate_loan_term(rules,
                           [i \in DOMAIN tags |-> tags[p[i]]]))
                      = Core(result.value)
            /\ Core(calculate_loan_term(rules, keyed)) = Core(result.value)
            /\ ({ tag_norm(tags[i]) : i \in DOMAIN tags } \cap DOMAIN rules
                    = {RuleKey.novel_extended}
                => result.value.days = 28)

\* NOVEL_EXTENDED last in the list, behind two tags that name no rule
C22_Witness ==
    /\ IsApplied("calculate_loan_term")
    /\ applied.rules = LOAN_RULES
    /\ applied.tags = <<<<"C","l","a","s","s","i","c">>,
                        <<"C","l","a","s","s","i","c">>,
                        RuleKey.novel_extended>>
    /\ result.value.applied_rule = RuleKey.novel_extended
    /\ result.value.days = 28

\* the books a criterion in scope finds for a normalised query: by title
\* also through the catalogue key
FieldHit(criterion, item, query_norm) ==
    CASE criterion = Criteria.title ->
           \/ Contains(normalize_text(item.data.title), query_norm)
           \/ Contains(item.key, query_norm)
      [] criterion = Criteria.author ->
           Contains(normalize_text(item.data.author), query_norm)
      [] criterion = Criteria.tag ->
           \E i \in DOMAIN item.data.tags :
              Contains(normalize_text(item.data.tags[i]), query_norm)

Scope(criteria) ==
    IF criteria = None THEN {Criteria.title, Criteria.author, Criteria.tag}
    ELSE {criteria} \cap {Criteria.title, Criteria.author, Criteria.tag}

Hit(item, query, criteria) ==
    \E criterion \in Scope(criteria) :
       FieldHit(criterion, item, normalize_text(query))

\* the positions in the catalogue of the books check_availability keeps
TitleMatches(title_, author_) ==
    { i \in DOMAIN GEPEBIA_INVENTORY :
        /\ FieldHit(Criteria.title, GEPEBIA_INVENTORY[i],
                    normalize_text(title_))
        /\ Truthy(author_) =>
              FieldHit(Criteria.author, GEPEBIA_INVENTORY[i],
                       normalize_text(author_)) }

WellFormed(args) == args.kind \in {"dict", "json"}

\* C23: check_availability answers missing_title without a title, and else
\* book_not_found for no match after the author filter, multiple_results
\* listing title and author for several, and for one match book_available
\* when it has an Available copy and book_not_available when it has none
C23_AvailabilityByMatches ==
    ( /\ IsApplied("alec_check_availability")
      /\ WellFormed(applied.args)
      /\ applied.args.title # Number
      /\ applied.args.author # Number ) =>
        LET args == applied.args
            answer == result.value
            at == TitleMatches(args.title, args.author)
            only == GEPEBIA_INVENTORY[CHOOSE i \in at : TRUE].data
        IN  IF ~Truthy(args.title)
            THEN /\ answer.type = "error"
                 /\ answer.payload.reason = "missing_title"
            ELSE CASE Cardinality(at) = 0 -> answer.type = "book_not_found"
                   [] Cardinality(at) > 1 ->
                        /\ answer.type = "multiple_results"
                        /\ Len(answer.payload.options) = Cardinality(at)
                        /\ \A i \in at :
                              \E k \in DOMAIN answer.payload.options :
                                 answer.payload.options[k] =
                                    [title |-> GEPEBIA_INVENTORY[i].data.title,
                                     author |->
                                        GEPEBIA_INVENTORY[i].data.author]
                   [] Cardinality(at) = 1 ->
                        IF \E k \in DOMAIN only.copies :
                              only.copies[k].status = "Available"
                        THEN /\ answer.type = "book_available"
                             /\ answer.payload.title = only.title
                        ELSE /\ answer.type = "book_not_available"
                             /\ answer.payload.title = only.title

\* several titles hold "the"; the author leaves one, The Tunnel, the eighth
\* book, which has a copy
C23_Witness ==
    /\ IsApplied("alec_check_availability")
    /\ applied.args.title = <<"t","h","e">>
    /\ applied.args.author = <<"S","a","b","a","t","o">>
    /\ result.value.type = "book_available"
    /\ result.value.payload.title = GEPEBIA_INVENTORY[8].data.title

AlecTypes == {"book_available", "book_not_available", "book_not_found",
              "multiple_results", "search_results", "error"}

\* the requests that cannot be served
Fails ==
    \/ ~WellFormed(applied.args)
    \/ /\ applied.fn = "alec_check_availability"
       /\ \/ ~Truthy(applied.args.title)
          \/ applied.args.title = Number
          \/ /\ applied.args.author = Number
             /\ TitleMatches(applied.args.title, None) # {}
    \/ /\ applied.fn = "alec_search_books"
       /\ \/ ~Truthy(applied.args.query)
          \/ applied.args.query = Number

\* C24: both tools answer every argument value with a response of one of
\* the six types, never with an exception, and every request that cannot
\* be served with a response of type error
C24_ToolsTotal ==
    (IsApplied("alec_check_availability") \/ IsApplied("alec_search_books")) =>
        /\ result.value.type \in AlecTypes
        /\ Fails => result.value.type = "error"

\* a JSON value that is no dict is answered with an error
C24_Witness ==
    /\ IsApplied("alec_search_books")
    /\ applied.args.kind = "not_dict"
    /\ result.value.type = "error"
    /\ result.value.payload.reason = "exception"

\* C25: search_in_inventory returns a book exactly when, for a criterion in
\* scope, the normalised query is part of the normalised title, author or
\* one tag, or for title of the catalogue key; with one criterion given no
\* other field is looked at
C25_SearchScope ==
    IsApplied("search_in_inventory") =>
        \A i \in DOMAIN GEPEBIA_INVENTORY :
            (\E k \in DOMAIN result.value :
                result.value[k] = GEPEBIA_INVENTORY[i])
                <=> Hit(GEPEBIA_INVENTORY[i], applied.query, applied.criteria)

\* "the" is part of a tag of the last book, of the titles of seven others
\* and of no author: searched by tag, the last book alone is returned
C25_Witness ==
    /\ IsApplied("search_in_inventory")
    /\ applied.query = <<"t","h","e">>
    /\ applied.criteria = Criteria.tag
    /\ result.value = <<GEPEBIA_INVENTORY[16]>>

\* C26: search_books answers missing_query without a query, and else
\* search_results with one entry for every matching book, all of them, in
\* the order of the catalogue, their number as total_results, and the
\* criteria given, or "all" when none is
C26_SearchResults ==
    ( /\ IsApplied("alec_search_books")
      /\ WellFormed(applied.args)
      /\ applied.args.query # Number ) =>
        LET args == applied.args
            answer == result.value
            matching == SelectSeq(GEPEBIA_INVENTORY,
                            LAMBDA item : Hit(item, args.query, args.criteria))
        IN  IF ~Truthy(args.query)
            THEN /\ answer.type = "error"
                 /\ answer.payload.reason = "missing_query"
            ELSE /\ answer.type = "search_results"
                 /\ [i \in DOMAIN answer.payload.books |->
                        answer.payload.books[i].title]
                       = [i \in DOMAIN matching |-> matching[i].data.title]
                 /\ answer.payload.total_results = Len(answer.payload.books)
                 /\ answer.payload.query = args.query
                 /\ answer.payload.criteria =
                       IF args.criteria = None THEN <<"a","l","l">>
                       ELSE args.criteria

\* nine books carry a tag holding "novel": all nine are listed
C26_Witness ==
    /\ IsApplied("alec_search_books")
    /\ applied.args.query = <<"n","o","v","e","l">>
    /\ applied.args.criteria = None
    /\ result.value.type = "search_results"
    /\ result.value.payload.total_results = 9
    /\ result.value.payload.criteria = <<"a","l","l">>

NoAuthor == {None, <<>>}

\* C27: check_availability for "Eternauta" answers multiple_results with
\* exactly two options, The Eternaut and The Eternaut II, the fifth and the
\* sixth book
C27_EternautaTwoOptions ==
    ( /\ IsApplied("alec_check_availability")
      /\ WellFormed(applied.args)
      /\ applied.args.title = <<"E","t","e","r","n","a","u","t","a">>
      /\ applied.args.author \in NoAuthor ) =>
        /\ result.value.type = "multiple_results"
        /\ result.value.payload.options =
              << [title |-> GEPEBIA_INVENTORY[5].data.title,
                  author |-> GEPEBIA_INVENTORY[5].data.author],
                 [title |-> GEPEBIA_INVENTORY[6].data.title,
                  author |-> GEPEBIA_INVENTORY[6].data.author] >>

C27_Witness ==
    /\ IsApplied("alec_check_availability")
    /\ applied.args.kind = "json"
    /\ applied.args.title = <<"E","t","e","r","n","a","u","t","a">>
    /\ applied.args.author = None
    /\ result.value.type = "multiple_results"
    /\ Len(result.value.payload.options) = 2

\* the title of the seventh book
Solitude ==
    <<"O","n","e"," ","H","u","n","d","r","e","d"," ","Y","e","a","r","s">>
        \o <<" ","o","f"," ","S","o","l","i","t","u","d","e">>

\* C28: check_availability for "One Hundred Years of Solitude" answers
\* book_available with one available copy, 28 loan days and the rule
\* NOVEL_EXTENDED
C28_SolitudeAvailable ==
    ( /\ IsApplied("alec_check_availability")
      /\ WellFormed(applied.args)
      /\ applied.args.title = Solitude
      /\ applied.args.author \in NoAuthor ) =>
        /\ result.value.type = "book_available"
        /\ result.value.payload.available_copies = 1
        /\ result.value.payload.loan_days = 28
        /\ result.value.payload.applied_rule = RuleKey.novel_extended

C28_Witness ==
    /\ IsApplied("alec_check_availability")
    /\ applied.args.kind = "dict"
    /\ applied.args.title = Solitude
    /\ applied.args.author = None
    /\ result.value.type = "book_available"
    /\ result.value.payload.title = Solitude
    /\ result.value.payload.loan_days = 28

\* C29: normalising a normalised text changes nothing, and an empty or
\* absent text normalises to the empty text
C29_NormalizeIdempotent ==
    IsApplied("normalize_text") =>
        /\ normalize_text(result.value) = result.value
        /\ (applied.text \in {None, <<>>} => result.value = <<>>)

\* a text that normalisation lower-cases, strips and unaccents
C29_Witness ==
    /\ IsApplied("normalize_text")
    /\ applied.text = <<" ", "A_acute", "n">>
    /\ result.value = <<"a", "n">>

DigitPositions(text) == { i \in DOMAIN text : isdigit(text[i]) }

\* C30: a text is accepted exactly when it holds 6 to 15 digits, and the
\* phone returned is those digits in their order
C30_PhoneDigits ==
    IsApplied("validate_phone") =>
        LET text == applied.text
            at == DigitPositions(text)
            phone == result.value
        IN  IF 6 <= Cardinality(at) /\ Cardinality(at) <= 15
            THEN /\ phone # None
                 /\ Len(phone) = Cardinality(at)
                 /\ \A i \in at :
                       phone[Cardinality({ j \in at : j <= i })] = text[i]
            ELSE phone = None

\* fifteen digits among other characters are accepted
C30_Witness ==
    /\ IsApplied("validate_phone")
    /\ applied.text = <<"+", "(">>
           \o <<"1","2","3","4","5","6","7","8","9","0","1","2","3","4","5">>
           \o <<")", " ">>
    /\ result.value = <<"1","2","3","4","5","6","7","8","9","0","1","2","3","4","5">>


\* C31: a continue_registration that finds the session at stage started
\* reads its message as the name in that same call: a name the validator
\* accepts is stored and the session goes to awaiting_phone, any other
\* message leaves it at awaiting_name; and after a continue_registration
\* call the session it names is never at stage started.
C31_StartedFallsThrough ==
    [][ IsContinue(request') =>
          LET c == request'.args.conversation_id
              msg == request'.args.user_message
              name == IF Truthy(msg) THEN validate_name(msg) ELSE None
          IN  /\ ( c \in DOMAIN REGISTRATIONS
                   /\ REGISTRATIONS[c].stage = "started" )
                  => /\ c \in DOMAIN REGISTRATIONS'
                     /\ response'.type = "ask_user_data"
                     /\ IF Truthy(name)
                        THEN /\ REGISTRATIONS'[c].stage = "awaiting_phone"
                             /\ REGISTRATIONS'[c].collected
                                    = Put(EmptyDict, "name", name)
                             /\ response'.field = "phone"
                        ELSE /\ REGISTRATIONS'[c].stage = "awaiting_name"
                             /\ REGISTRATIONS'[c].collected = EmptyDict
                             /\ response'.field = "name"
              /\ c \in DOMAIN REGISTRATIONS'
                  => REGISTRATIONS'[c].stage # "started" ]_vars

\* the first message after the start was a name and has been stored
C31_Witness ==
    /\ IsContinue(request)
    /\ effects.stage = "started"
    /\ request.args.conversation_id \in DOMAIN REGISTRATIONS
    /\ REGISTRATIONS[request.args.conversation_id].stage = "awaiting_phone"
    /\ REGISTRATIONS[request.args.conversation_id].collected["name"]
           = <<"J","o">>

\* C32: the persistence save is attempted, and the users table written,
\* only by a continue_registration call that finds its session at stage
\* confirm and carries an affirmative message; start_registration, the name
\* and phone steps, a rejection, a malformed request, gina_get_user_profile
\* with its sweep and the passing of time leave the table as it was.
C32_SaveOnlyAtConfirm ==
    [][ (effects'.saves # <<>> \/ users' # users)
        => /\ IsContinue(request')
           /\ request'.args.conversation_id \in DOMAIN REGISTRATIONS
           /\ REGISTRATIONS[request'.args.conversation_id].stage = "confirm"
           /\ is_affirmative(MsgOrEmpty(request'))
           /\ Len(effects'.saves) = 1 ]_vars

\* a second profile has been written by a confirmation
C32_Witness ==
    /\ IsContinue(request)
    /\ effects.stage = "confirm"
    /\ Len(effects.saves) = 1
    /\ effects.saves[1].saved
    /\ Cardinality(DOMAIN users) = 2

\* C33: generate_user_id returns for every used-id set, every sequence of
\* draws and every clock, and what it returns is one of the five-digit
\* identifiers: the first of its MaxAttempts draws that is not in the
\* used-id set, which it has then added to the set, or, when every draw is
\* in the set, the low-order digits of the clock, the set left as it was.
C33_GenerateUserId ==
    applied.fn = "generate_user_id" =>
        LET fresh == {i \in 1..MaxAttempts : applied.draws[i] \notin applied.used}
        IN  /\ ~result.returned => ENABLED ApplyGenerateUserId
            /\ result.returned =>
                 /\ result.value.id \in UserIds
                 /\ IF fresh # {}
                    THEN \E i \in fresh :
                           /\ \A j \in 1..(i - 1) : applied.draws[j] \in applied.used
                           /\ result.value.id = applied.draws[i]
                           /\ result.value.id \notin applied.used
                           /\ result.value.used
                                  = applied.used \cup {result.value.id}
                    ELSE /\ result.value.id = applied.now_ % NumIds
                         /\ result.value.used = applied.used

\* the last draw was the first one not in use, and it has been returned
C33_Witness ==
    /\ IsApplied("generate_user_id")
    /\ applied.used # {}
    /\ \A i \in 1..(MaxAttempts - 1) : applied.draws[i] \in applied.used
    /\ applied.draws[MaxAttempts] \notin applied.used
    /\ result.value.id = applied.draws[MaxAttempts]

\* C34: no step leaves a session at stage done and no request is answered
\* with the info response: a registration_complete leaves no session under
\* its conversation id, and a continue_registration naming a conversation
\* that has no session, the one just completed included, is answered with
\* conversation_not_found.
C34_NeverDone ==
    [][ /\ \A c \in DOMAIN REGISTRATIONS' : REGISTRATIONS'[c].stage # "done"
        /\ response'.type # "info"
        /\ response'.type = "registration_complete"
               => response'.conversation_id \notin DOMAIN REGISTRATIONS'
        /\ ( /\ IsContinue(request')
             /\ \/ /\ response.type = "registration_complete"
                   /\ request'.args.conversation_id = response.conversation_id
                \/ /\ request'.args.conversation_id # ""
                   /\ request'.args.conversation_id \notin DOMAIN REGISTRATIONS )
           => ( /\ response'.type = "error"
                /\ response'.reason = "conversation_not_found"
                /\ REGISTRATIONS' = REGISTRATIONS ) ]_vars

\* a conversation that was completed, and not swept, has been continued
C34_Witness ==
    /\ IsContinue(request)
    /\ request.args.conversation_id = "c1"
    /\ is_affirmative(MsgOrEmpty(request))
    /\ response.type = "error"
    /\ response.reason = "conversation_not_found"
    /\ now = 0
    /\ users # EmptyDict
    /\ REGISTRATIONS = EmptyDict

\* C35: of two overlapping continue_registration calls for one conversation
\* at most one is answered with registration_complete, and together they
\* add at most one profile to the users table.
C35_OneCompletion ==
    /\ Cardinality({t \in Threads :
                       calls[t].response.type = "registration_complete"}) <= 1
    /\ base.set =>
           Cardinality((DOMAIN users) \ (DOMAIN base.table)) <= 1

\* C36: a registration request leaves every profile that is already in the
\* users table as it was: a successful save goes to a user id that has no
\* profile yet.
C36_NoOverwrite ==
    [][ IsRegistrationCall(request') =>
          /\ \A u \in DOMAIN users :
                 u \in DOMAIN users' /\ users'[u] = users[u]
          /\ \A i \in DOMAIN effects'.saves :
                 effects'.saves[i].saved
                     => effects'.saves[i].user_id \notin DOMAIN users ]_vars

\* C37: with the calls handled one after the other, a session at stage
\* awaiting_phone or confirm holds under name a non-empty value that the
\* name validator returned for a message sent since the session was opened
\* or last rejected; every profile handed to the save has a non-empty name,
\* so the save fails only when the database does; and a completed
\* registration's profile holds the name and the phone taken from two
\* messages sent after the last rejection.
C37_NameAlwaysCollected ==
    LET MsgOf(entry) == entry.request.args.user_message
        Later == 2..Len(log)
        Names == { validate_name(MsgOf(log[i])) :
                     i \in {j \in Later : Truthy(MsgOf(log[j]))} }
        PhoneOf(msg) ==
            IF is_skip_request(IF Truthy(msg) THEN msg ELSE <<>>) THEN None
            ELSE IF Truthy(msg) THEN validate_phone(msg)
            ELSE None
    IN  /\ \A c \in DOMAIN REGISTRATIONS :
               REGISTRATIONS[c].stage \in {"awaiting_phone", "confirm"}
                   => /\ "name" \in DOMAIN REGISTRATIONS[c].collected
                      /\ Truthy(REGISTRATIONS[c].collected["name"])
                      /\ REGISTRATIONS[c].collected["name"] \in Names
        /\ \A i \in DOMAIN effects.saves :
               /\ Truthy(effects.saves[i].profile.name)
               /\ effects.saves[i].saved = log[Len(log)].db_ok
        /\ response.type = "registration_complete"
               => \E i \in Later, j \in Later :
                      /\ i < j
                      /\ j < Len(log)
                      /\ log[i].response.type = "ask_user_data"
                      /\ log[i].response.field = "phone"
                      /\ log[j].response.type = "confirm_data"
                      /\ response.profile.name = validate_name(MsgOf(log[i]))
                      /\ response.profile.phone = PhoneOf(MsgOf(log[j]))
                      /\ users[response.user_id].name = response.profile.name
                      /\ users[response.user_id].phone = response.profile.phone

\* a caller who entered Jo and a phone number, rejected the summary and
\* then entered Ann without a phone has been registered
C37_Witness ==
    /\ response.type = "registration_complete"
    /\ "dropped" \in DOMAIN log[1]
    /\ log[1].dropped["name"] = <<"J","o">>
    /\ log[1].dropped["phone"] = <<"3","8","1","5","5","5">>
    /\ response.profile.name = <<"A","n","n">>
    /\ response.profile.phone = None

\* C38: for the empty copy list check_availability_status returns
\* available false, quantity 0, borrowed 0, under_repair 0 and the reason
\* all_borrowed.
C38_EmptyListAllBorrowed ==
    (copies = <<>> /\ availability # NoAvailability)
        => availability = [available |-> FALSE, quantity |-> 0,
                           reason |-> "all_borrowed",
                           borrowed |-> 0, under_repair |-> 0]

\* the availability of a book without copies has been computed
C38_Witness ==
    /\ copies = <<>>
    /\ availability # NoAvailability
    /\ ~availability.available
    /\ availability.reason # "not_available"

\* C39: a query or a title made only of whitespace is not answered with
\* missing_query or missing_title; it normalizes to the empty text, and
\* search_books, with no criteria or one of title, author and tag, lists
\* every book of the catalogue in its order, and check_availability, with
\* no author given, answers multiple_results with every book as an option.
C39_BlankMatchesAll ==
    LET IsBlank(text) ==
            /\ text # <<>>
            /\ \A i \in DOMAIN text : isspace(text[i])
        catalogue == GEPEBIA_INVENTORY
    IN  /\ ( /\ IsApplied("alec_search_books")
             /\ WellFormed(applied.args)
             /\ IsBlank(applied.args.query)
             /\ applied.args.criteria
                    \in {None, Criteria.title, Criteria.author, Criteria.tag} )
            => /\ normalize_text(applied.args.query) = <<>>
               /\ result.value.type = "search_results"
               /\ result.value.payload.total_results = Len(catalogue)
               /\ [i \in DOMAIN result.value.payload.books |->
                      result.value.payload.books[i].title]
                     = [i \in DOMAIN catalogue |-> catalogue[i].data.title]
        /\ ( /\ IsApplied("alec_check_availability")
             /\ WellFormed(applied.args)
             /\ IsBlank(applied.args.title)
             /\ applied.args.author \in NoAuthor )
            => /\ normalize_text(applied.args.title) = <<>>
               /\ result.value.type = "multiple_results"
               /\ result.value.payload.options
                     = [i \in DOMAIN catalogue |->
                           [title |-> catalogue[i].data.title,
                            author |-> catalogue[i].data.author]]

\* a search by tag for two blanks has listed all sixteen books
C39_Witness ==
    /\ IsApplied("alec_search_books")
    /\ applied.args.query = <<" ", " ">>
    /\ applied.args.criteria = Criteria.tag
    /\ result.value.type = "search_results"
    /\ result.value.payload.total_results = 16
====
